---- MODULE Spec2Model ----
(***************************************************************************)
(* Turn orchestrator of IRon (internal/chat Service): SendWithContext,     *)
(* Clear, the pre- and post-LLM middleware dispatch, the agent loop with   *)
(* its concurrent tool fan-out, and the memory index.                      *)
(*                                                                         *)
(* Texts are sequences of fragments (strings); the empty text is << >>.    *)
(* A Go pointer is a sequence of length 0 (nil) or 1 (the pointee).        *)
(***************************************************************************)
EXTENDS Integers, Sequences, FiniteSets, TLC

\* ------------------------------------------------------------------ bounds
NumClients == 2     \* goroutines calling into one Service
MaxCalls == 2       \* Send / Clear calls made in one behaviour
MaxChain == 2       \* interceptors in the Service's chain
MaxRich == 1        \* multi-call (fan-out) assistant replies in one behaviour
MaxAdapterCalls == 11   \* calls of the LLM adapter in one behaviour
MaxScript == 2      \* iterations of a turn in which the adapter's reply is free
LockAdapterCalls == 2   \* calls of the LLM adapter in one behaviour of SpecLock
MaxUse == 3         \* interceptors registered with Chain.Use in one behaviour
MaxTime == 6        \* minutes the clock runs in one behaviour
NumHandlers == 2    \* message handler goroutines of the telegram Adapter
MaxSessions == 3    \* userSessions created in one behaviour
MaxMessages == 3    \* messages arriving in one behaviour
MaxHour == 3        \* hours the clock runs in one behaviour
MaxDocs == 3        \* documents indexed into the memory store in one behaviour
MaxK == 2           \* the largest k a memory query asks for
MaxChunks == 203    \* chunks the callbacks of one webui Session emit in one behaviour
MaxStatusAt == 2    \* the status callback is called among the first chunks only
MaxTakes == 3       \* chunks the handleEvents goroutines take in one behaviour
NumConsumers == 2   \* handleEvents goroutines on one webui Session
MaxInjectors == 3   \* interceptors in the chain of one injector dispatch
MaxMwTools == 3     \* tools in the params the pre-LLM dispatch leaves
NumGoroutines == 2  \* goroutines calling Dispatch, Use and List on one Chain
MaxToolCalls == 2   \* calls in context["tool_calls"] of one executor event
MaxAlarms == 2      \* entries of alarms.json
MaxTimers == 1      \* timer processes started
MaxClears == 1      \* /clear requests served
MaxAlarmCalls == 2  \* alarm.set calls of one goroutine

\* ------------------------------------------------------- program constants
maxIterations == 10
HistoryLimit == 20
CacheTTL == 5       \* minutes: 5*time.Minute
IdleLimit == 2      \* hours: 2*time.Hour
EventCap == 200     \* make(chan string, 200)

Clients == 1..NumClients

\* --------------------------------------------------------------- data model
RoleUser == "user"
RoleAssistant == "assistant"
RoleTool == "tool"

Space == {" ", "\n", "\t"}

Message(role, content, toolCalls, toolCallID, toolName) ==
    [Role |-> role, Content |-> content, ToolCalls |-> toolCalls,
     ToolCallID |-> toolCallID, ToolName |-> toolName]

\* the zero value of chat.Message, as make([]Message, n) fills a slice
ZeroMessage == Message("", << >>, << >>, "", "")

ToolCall(id, name, arguments) == [ID |-> id, Name |-> name, Arguments |-> arguments]

Decision(cancel, reason, replaceText) ==
    [Cancel |-> cancel, Reason |-> reason, ReplaceText |-> replaceText]

\* ------------------------------------------------------------ pure helpers
RECURSIVE TrimLeft(_)
TrimLeft(s) == IF s # << >> /\ Head(s) \in Space THEN TrimLeft(Tail(s)) ELSE s

RECURSIVE TrimRight(_)
TrimRight(s) ==
    IF s # << >> /\ s[Len(s)] \in Space THEN TrimRight(SubSeq(s, 1, Len(s) - 1)) ELSE s

\* strings.TrimSpace
TrimSpace(s) == TrimRight(TrimLeft(s))

\* one message too many is kept
PruneKeepsOneMore(h) ==
    IF Len(h) > HistoryLimit THEN SubSeq(h, Len(h) - HistoryLimit, Len(h)) ELSE h

\* s.history[len(s.history)-20:] when len(s.history) > 20
Prune(h) ==
    IF Len(h) > HistoryLimit THEN SubSeq(h, Len(h) - HistoryLimit + 1, Len(h)) ELSE h

\* a blank text is added as well
IndexKeepsBlank(docs, text) == Append(docs, TrimSpace(text))

\* memory.Store.Index on the "default" session
Index(docs, text) ==
    IF TrimSpace(text) = << >> THEN docs ELSE Append(docs, TrimSpace(text))

\* middleware.Chain.Dispatch: outs[k] is what the k-th interceptor's OnEvent
\* returns for this event, as [dec, err]
RECURSIVE DispatchFrom(_, _)
DispatchFrom(outs, results) ==
    IF outs = << >> THEN [results |-> results, err |-> << >>]
    ELSE LET o == Head(outs) IN
         IF o.err # << >> THEN [results |-> << >>, err |-> o.err]
         ELSE IF o.dec.Cancel THEN [results |-> Append(results, o.dec), err |-> << >>]
         ELSE DispatchFrom(Tail(outs), Append(results, o.dec))

Dispatch(outs) == DispatchFrom(outs, << >>)

RECURSIVE applyFrom(_, _)
applyFrom(cur, results) ==
    IF results = << >> THEN [updated |-> cur, canceled |-> << >>]
    ELSE LET dec == Head(results)
             nxt == IF dec.ReplaceText # << >> THEN TrimSpace(dec.ReplaceText[1]) ELSE cur
         IN IF dec.Cancel THEN [updated |-> nxt, canceled |-> <<dec>>]
            ELSE applyFrom(nxt, Tail(results))

applyTextDecisions(initial, results) == applyFrom(TrimSpace(initial), results)

\* ------------------------------------------------------------------- state
VARIABLES
    history,    \* Service.history
    mu,         \* Service.mu: 0 when free, else the client holding it
    mem,        \* documents of the "default" session of Service.mem
    mws,        \* Service.mws: NilChain, or the number of interceptors in it
    call,       \* per client: the locals of its running SendWithContext
    last,       \* the call that returned most recently and what it returned
    calls,      \* calls made so far
    rich,       \* fan-out replies the adapter has produced so far
    llmCalls    \* calls of the adapter so far

svcVars == <<history, mu, mem, mws, call, last, calls, rich, llmCalls>>

\* middleware.Chain, taken on its own
VARIABLES
    chain,      \* Chain.mws: the registered interceptors, in dispatch order
    disp        \* the locals of the Dispatch call that runs or ran last

chainVars == <<chain, disp>>

\* the local-cache interceptor in the chain of a Service
VARIABLES
    cache,      \* LocalCache.cache: user text -> cacheEntry
    now,        \* the wall clock, in minutes
    answered,   \* per user text, the last send the LLM answered: its reply and time
    probe       \* what answered held for the text of the latest send, at its start

cacheVars == <<cache, now, answered, probe>>

\* the session manager of the telegram Adapter
VARIABLES
    sessions,   \* Adapter.sessions: chat id -> the number of its userSession
    sessionsMu, \* Adapter.sessionsMu: the writer (0: none) and the readers
    sess,       \* the userSessions created so far, by number
    hnd,        \* per handler goroutine: its position and locals
    hour,       \* the wall clock, in hours
    msgs,       \* messages and requests that have arrived so far
    stopped,    \* the Adapter's context is done
    webSessions, \* webui Server.sessions: session id -> the number of its Session
    webMade     \* the ids of the webui Sessions created so far, by number

sessVars == <<sessions, sessionsMu, sess, hnd, hour, msgs, stopped, webSessions, webMade>>

\* memory.Store, taken on its own
VARIABLES
    store,      \* Store.docs: session -> documents
    asked       \* the latest Query: its arguments, the documents it read, its result

memVars == <<store, asked>>

\* the event buffer of one webui Session
VARIABLES
    eventCh,    \* Session.eventCh: the chunks in the channel's buffer, oldest first
    emitted,    \* calls of the Session's stream and status callbacks so far
    dropped,    \* the numbers of the chunks that found the buffer full
    delivered   \* per handleEvents goroutine: the chunks it has written out

eventVars == <<eventCh, emitted, dropped, delivered>>

\* the tool injectors in one pre-LLM dispatch
VARIABLES
    inj         \* the dispatch: its interceptors, its position, its event, its log

injVars == <<inj>>

\* one tool executor handling one event
VARIABLES
    exe         \* the event, the decision, the calls run, the alarms file, the timers

exeVars == <<exe>>

\* the chain's lock and the goroutines that call Dispatch, Use and List
VARIABLES
    chainMu,    \* Chain.mu: its writer, the goroutines waiting in Lock, its readers
    gor         \* per goroutine: where it is, and the locals of its Dispatch

lockVars == <<chainMu, gor>>

\* the tools of one request
VARIABLES
    tl          \* the tools the interceptors left, the skills listed, the tools sent

toolVars == <<tl>>

\* the /clear handler of the telegram adapter and the locks of the Services
VARIABLES
    clr,        \* the goroutine of the /clear handler: its position and locals
    svcMu       \* per userSession number: the holder of its Service.mu (0: none)

clearVars == <<clr, svcMu>>

\* two sessions whose chains hold the one registered LocalCache
VARIABLES
    sh,         \* per chat: the position of its turn and the text it was sent
    owner,      \* per user text: the chat whose turn stored the cache entry
    served      \* the latest reply returned: to which chat, and from the cache or not

shareVars == <<sh, owner, served>>

\* alarm.set calls that run at the same time on ~/.iron/alarms.json
VARIABLES
    afile,      \* alarms.json: its alarms, or torn while a write is under way
    ag,         \* per goroutine: its position in runAlarmTool and its locals
    okd         \* the alarms of the calls that have returned "ok: alarm set ..."

alarmVars == <<afile, ag, okd>>

\* what the actions of the Service, those of the chain, those of the Service
\* with the cache, and those of the session manager leave alone
besideService == <<chainVars, cacheVars, sessVars, memVars, eventVars, injVars, exeVars, lockVars, toolVars, clearVars, shareVars, alarmVars>>

besideChain == <<svcVars, cacheVars, sessVars, memVars, eventVars, injVars, exeVars, lockVars, toolVars, clearVars, shareVars, alarmVars>>

besideCache == <<chainVars, sessVars, memVars, eventVars, injVars, exeVars, lockVars, toolVars, clearVars, shareVars, alarmVars>>

besideSessions == <<svcVars, chainVars, cacheVars, memVars, eventVars, injVars, exeVars, lockVars, toolVars, clearVars, shareVars, alarmVars>>

besideMemory == <<svcVars, chainVars, cacheVars, sessVars, eventVars, injVars, exeVars, lockVars, toolVars, clearVars, shareVars, alarmVars>>

besideEvents == <<svcVars, chainVars, cacheVars, sessVars, memVars, injVars, exeVars, lockVars, toolVars, clearVars, shareVars, alarmVars>>

besideInject == <<svcVars, chainVars, cacheVars, sessVars, memVars, eventVars, exeVars, lockVars, toolVars, clearVars, shareVars, alarmVars>>

besideExec == <<svcVars, chainVars, cacheVars, sessVars, memVars, eventVars, injVars, lockVars, toolVars, clearVars, shareVars, alarmVars>>

besideChainLock == <<svcVars, disp, cacheVars, sessVars, memVars, eventVars, injVars, exeVars, toolVars, clearVars, shareVars, alarmVars>>

besideTools == <<svcVars, chainVars, cacheVars, sessVars, memVars, eventVars, injVars, exeVars, lockVars, clearVars, shareVars, alarmVars>>

besideSessionLocks == <<svcVars, chainVars, cacheVars, memVars, eventVars, injVars, exeVars, lockVars, toolVars, shareVars, alarmVars>>

besideShare == <<svcVars, chainVars, sessVars, memVars, eventVars, injVars, exeVars, lockVars, toolVars, clearVars, alarmVars>>

besideAlarm == <<svcVars, chainVars, cacheVars, sessVars, memVars, eventVars, injVars, exeVars, lockVars, toolVars, clearVars, shareVars>>

vars == <<svcVars, chainVars, cacheVars, sessVars, memVars, eventVars, injVars, exeVars, lockVars, toolVars, clearVars, shareVars, alarmVars>>

NilChain == 0 - 1

\* the locals of SendWithContext before the call starts
IdleCall ==
    [pc |-> "idle", input |-> << >>, isHeartbeat |-> FALSE,
     updated |-> << >>, canceled |-> << >>,
     currentHistory |-> << >>, i |-> 0, toolCalls |-> << >>,
     results |-> << >>, pending |-> {}, finalResponse |-> << >>,
     dispatchErr |-> << >>, doneOrder |-> << >>,
     histEntry |-> << >>, memEntry |-> << >>,
     adapterCalls |-> 0, toolRuns |-> 0, stream |-> << >>, status |-> 0,
     post |-> << >>, dispatches |-> 0, memQueries |-> 0,
     skillRuns |-> {}, mwRuns |-> {}, toolDispatch |-> << >>]

NoCall == [done |-> FALSE, client |-> 0, reply |-> << >>, err |-> << >>, k |-> IdleCall]

\* ------------------------------------------------------------- environment
NoOp == Decision(FALSE, << >>, << >>)

\* what one interceptor's OnEvent may return for an event
MwOutcomes ==
    {[dec |-> d, err |-> << >>] : d \in
        {NoOp,
         Decision(FALSE, << >>, << <<"r">> >>),
         Decision(TRUE, <<"hit">>, << <<"r", " ">> >>),
         Decision(TRUE, <<"why">>, << >>),
         Decision(TRUE, << >>, << >>),
         Decision(TRUE, <<" ">>, << <<" ">> >>)}}
    \cup {[dec |-> NoOp, err |-> <<"mw failed">>]}

\* Dispatch returns on an interceptor's error and breaks on a Cancel: the
\* interceptors behind that one are not called for the event
Stops(o) == o.err # << >> \/ o.dec.Cancel

PassOutcomes == {o \in MwOutcomes : ~Stops(o)}

StopOutcomes == {o \in MwOutcomes : Stops(o)}

\* what the interceptors called in one dispatch of a chain of n return
ChainRuns(n) ==
    [1..n -> PassOutcomes]
    \cup UNION {{Append(p, s) : p \in [1..m -> PassOutcomes], s \in StopOutcomes} :
                m \in 0..(n - 1)}

\* the outcomes of the chain's interceptors for one dispatch
ChainOuts == IF mws = NilChain THEN {<< >>} ELSE ChainRuns(mws)

\* an executor that ran the tool and joined no output: Cancel with a
\* ReplaceText that points to ""
ExecOutcome == [dec |-> Decision(TRUE, <<"exec">>, << << >> >>), err |-> << >>]

\* the outcomes of the chain's interceptors for the dispatch of one tool call
ToolChainOuts ==
    IF mws = NilChain THEN {<< >>}
    ELSE ChainRuns(mws)
         \cup UNION {{Append(p, ExecOutcome) : p \in [1..m -> {[dec |-> NoOp, err |-> << >>]}]} :
                     m \in 0..(mws - 1)}

InputTexts == {<< >>, <<" ">>, <<"q">>, <<" ", "q", "\n">>}

\* skills.Manager: the registered skills and what Execute returns, [out, err]
Skills == {"echo", "fail", "quiet"}

SkillExecute(name) ==
    CASE name = "echo" -> [out |-> <<"out">>, err |-> << >>]
      [] name = "fail" -> [out |-> << >>, err |-> <<"boom">>]
      [] OTHER -> [out |-> << >>, err |-> << >>]

GoodArgs == <<"{}">>
BadArgs == <<"{">>

\* json.Unmarshal([]byte(t.Arguments), &args) succeeds
ValidJSON(arguments) == arguments = GoodArgs

\* replies of Adapter.ReplyStream: [text, toolCalls, err]
Reply(text, toolCalls, err) == [text |-> text, toolCalls |-> toolCalls, err |-> err]

FinalReplies == {Reply(<<"a", "\n">>, << >>, << >>)}

ErrorReplies ==
    {Reply(<< >>, << >>, <<"llm failed">>), Reply(<< >>, << >>, <<"context canceled">>)}

PlainToolReply == Reply(<<"t">>, <<ToolCall("c1", "echo", GoodArgs)>>, << >>)

RichToolReplies ==
    {Reply(<< >>, <<ToolCall("c1", "fail", GoodArgs), ToolCall("c2", "alarm", GoodArgs)>>, << >>),
     Reply(<<"u">>, <<ToolCall("c1", "quiet", GoodArgs), ToolCall("c2", "echo", BadArgs)>>, << >>),
     Reply(<<"v">>, <<ToolCall("c1", "alarm", BadArgs), ToolCall("c2", "echo", GoodArgs)>>, << >>)}

\* ------------------------------------------------------- middleware.Chain
EventBeforeLLMRequest == "before_llm_request"
EventAfterLLMResponse == "after_llm_response"
EventBeforeUserReply == "before_user_reply"

EventNames == {EventBeforeLLMRequest, EventAfterLLMResponse, EventBeforeUserReply}

\* middleware.Event; Params is the pointer's target, named by a text
Event(name, userText, llmText, params) ==
    [Name |-> name, UserText |-> userText, LLMText |-> llmText, Params |-> params]

\* the event a caller hands to Dispatch
NewEvent(name) == Event(name, <<"u">>, <<"l">>, <<"p">>)

\* middleware.Decision with its OverrideParams
FullDecision(cancel, reason, replaceText, overrideParams) ==
    [Cancel |-> cancel, Reason |-> reason, ReplaceText |-> replaceText,
     OverrideParams |-> overrideParams]

ZeroDecision == FullDecision(FALSE, << >>, << >>, << >>)

DecisionResult(mw, dec) ==
    [MiddlewareID |-> mw.id, Priority |-> mw.priority, Decision |-> dec]

\* the ids interceptors get, in the order of their registration
Ids == <<"a", "b", "c", "d">>

Priorities == {5, 10}

\* an interceptor: ID(), Priority(), and whether it is a ConditionalMiddleware
Interceptor(n, priority, conditional) ==
    [id |-> Ids[n], priority |-> priority, conditional |-> conditional]

\* what OnEvent of the interceptor id may return, [dec, err]
OnEventOutcomes(id) ==
    {[dec |-> ZeroDecision, err |-> << >>],
     [dec |-> FullDecision(FALSE, << >>, << <<"r", id>> >>, << >>), err |-> << >>],
     [dec |-> FullDecision(FALSE, << >>, << << >> >>, << >>), err |-> << >>],
     [dec |-> FullDecision(FALSE, << >>, << >>, << <<"o", id>> >>), err |-> << >>],
     [dec |-> FullDecision(TRUE, <<"stop">>, << <<"c", id>> >>, << >>), err |-> << >>],
     [dec |-> FullDecision(FALSE, << >>, << <<"e", id>> >>, << <<"e", id>> >>),
      err |-> <<"mw failed">>]}

\* debug.go eventText
eventText(e) ==
    IF e.Name = EventBeforeLLMRequest THEN e.UserText
    ELSE IF e.Name \in {EventAfterLLMResponse, EventBeforeUserReply} THEN e.LLMText
    ELSE << >>

\* the decision is not applied to the event
applyDecisionToEventSkipped(e, dec) == e

\* debug.go applyDecisionToEvent
applyDecisionToEvent(e, dec) ==
    LET e1 == IF dec.OverrideParams # << >>
              THEN [e EXCEPT !.Params = dec.OverrideParams[1]] ELSE e
    IN IF dec.ReplaceText = << >> THEN e1
       ELSE IF e1.Name = EventBeforeLLMRequest
       THEN [e1 EXCEPT !.UserText = dec.ReplaceText[1]]
       ELSE IF e1.Name \in {EventAfterLLMResponse, EventBeforeUserReply}
       THEN [e1 EXCEPT !.LLMText = dec.ReplaceText[1]]
       ELSE e1

\* x goes in front of the interceptors of its own priority
InsertBeforeEqual(sorted, x) ==
    LET ahead == {n \in 1..Len(sorted) : sorted[n].priority > x.priority}
    IN SubSeq(sorted, 1, Cardinality(ahead)) \o <<x>>
       \o SubSeq(sorted, Cardinality(ahead) + 1, Len(sorted))

\* where a stable sort by descending priority puts x into a sorted list: behind
\* every interceptor whose priority is not lower
InsertStable(sorted, x) ==
    LET ahead == {n \in 1..Len(sorted) : sorted[n].priority >= x.priority}
    IN SubSeq(sorted, 1, Cardinality(ahead)) \o <<x>>
       \o SubSeq(sorted, Cardinality(ahead) + 1, Len(sorted))

\* Chain.sortLocked: sort.SliceStable with less = Priority() greater
RECURSIVE sortLocked(_)
sortLocked(s) ==
    IF s = << >> THEN << >>
    ELSE InsertStable(sortLocked(SubSeq(s, 1, Len(s) - 1)), s[Len(s)])

\* the locals of Dispatch before any call
NoDispatch ==
    [pc |-> "idle", mws |-> << >>, pos |-> 0, e |-> NewEvent(EventBeforeLLMRequest),
     e0 |-> NewEvent(EventBeforeLLMRequest), results |-> << >>, err |-> << >>,
     log |-> << >>]

\* Chain.Use
Use(priority, conditional) ==
    /\ Len(chain) < MaxUse
    /\ chain' = sortLocked(Append(chain, Interceptor(Len(chain) + 1, priority, conditional)))
    /\ UNCHANGED disp

\* Chain.List: a copy of the list
List == chain

\* Chain.Dispatch up to its loop: the snapshot of the list under the read lock
DispatchBegin(name) ==
    /\ disp.pc # "run"
    /\ disp' = [pc |-> IF chain = << >> THEN "done" ELSE "run",
                mws |-> chain, pos |-> 1, e |-> NewEvent(name), e0 |-> NewEvent(name),
                results |-> << >>, err |-> << >>, log |-> << >>]
    /\ UNCHANGED chain

\* the loop goes on after the interceptor at pos
AfterInterceptorIgnoresCancel(d, dec) == IF d.pos < Len(d.mws) THEN "run" ELSE "done"

\* if dec.Cancel { break }; the loop ends behind the last interceptor
AfterInterceptor(d, dec) ==
    IF dec.Cancel THEN "done" ELSE IF d.pos < Len(d.mws) THEN "run" ELSE "done"

\* the skipped interceptor leaves no result
SkipResultNone(results, mw) == results

\* the result recorded for an interceptor whose ShouldLoad returned false
SkipResult(results, mw) ==
    Append(results,
           DecisionResult(mw, FullDecision(FALSE, <<"skipped (ShouldLoad=false)">>, << >>, << >>)))

\* the loop goes on behind an interceptor that failed
FailedKeepsGoing(d) == IF d.pos < Len(d.mws) THEN "run" ELSE "done"

\* return nil, err
Failed(d) == "done"

\* one iteration of the loop of Dispatch, for the interceptor at disp.pos:
\* load is what its ShouldLoad returns, out what its OnEvent returns
DispatchStep(load, out) ==
    LET d == disp
        mw == d.mws[d.pos]
    IN
    /\ d.pc = "run"
    /\ out \in OnEventOutcomes(mw.id)
    /\ UNCHANGED chain
    /\ IF mw.conditional /\ ~load
       THEN disp' = [d EXCEPT
                !.results = SkipResult(@, mw),
                !.log = Append(@, [id |-> mw.id, called |-> FALSE, before |-> d.e,
                                   after |-> d.e,
                                   out |-> [dec |-> ZeroDecision, err |-> << >>]]),
                !.pos = @ + 1,
                !.pc = IF d.pos < Len(d.mws) THEN "run" ELSE "done"]
       ELSE IF out.err # << >>
       THEN disp' = [d EXCEPT
                !.results = << >>,
                !.err = out.err,
                !.log = Append(@, [id |-> mw.id, called |-> TRUE, before |-> d.e,
                                   after |-> d.e, out |-> out]),
                !.pos = @ + 1,
                !.pc = Failed(d)]
       ELSE LET e1 == applyDecisionToEvent(d.e, out.dec) IN
            disp' = [d EXCEPT
                !.e = e1,
                !.results = Append(@, DecisionResult(mw, out.dec)),
                !.log = Append(@, [id |-> mw.id, called |-> TRUE, before |-> d.e,
                                   after |-> e1, out |-> out]),
                !.pos = @ + 1,
                !.pc = AfterInterceptor(d, out.dec)]

\* ------------------------------------------------- tools of a request
\* llms.Tool with a function definition; description tells descriptors of one
\* name apart
Tool(name, description) ==
    [Type |-> "function", Function |-> <<[Name |-> name, Description |-> description]>>]

\* llms.Tool without a function definition
PlainTool(type) == [Type |-> type, Function |-> << >>]

\* the tool SendWithContext makes of a skill
SkillTool(name) == Tool(name, "skill")

\* what interceptors may have left in params.Tools
MwTools ==
    {Tool("echo", "mw1"), Tool("echo", "mw2"), PlainTool("retrieval")}

MwToolLists == UNION {[1..n -> MwTools] : n \in 0..MaxMwTools}

\* what skillMgr.List() may return: the registered skills in the order the map
\* is ranged over
SkillLists ==
    UNION {{l \in [1..n -> Skills] : \A i, j \in 1..n : i # j => l[i] # l[j]} :
              n \in 0..Cardinality(Skills)}

\* for _, skill := range s.skillMgr.List(): a function tool per skill
RECURSIVE AppendSkills(_, _)
AppendSkills(tools, list) ==
    IF list = << >> THEN tools
    ELSE AppendSkills(Append(tools, SkillTool(Head(list))), Tail(list))

\* the tools go out as they are
DeduplicateNone(tools) == tools

\* the loop of the deduplication over tools, with the names seen so far
RECURSIVE Dedup(_, _)
Dedup(tools, seen) ==
    IF tools = << >> THEN << >>
    ELSE LET t == Head(tools) IN
         IF t.Function = << >> THEN <<t>> \o Dedup(Tail(tools), seen)
         ELSE IF t.Function[1].Name \notin seen
         THEN <<t>> \o Dedup(Tail(tools), seen \cup {t.Function[1].Name})
         ELSE Dedup(Tail(tools), seen)

\* the deduplication: unique, with seen empty at first
Deduplicate(tools) == Dedup(tools, {})

\* SendWithContext, steps 3 and 4: the tools of the request, from the tools
\* of llmParams and the skills listed; hasMgr is s.skillMgr != nil
RequestTools(mwTools, list, hasMgr) ==
    LET tools == IF hasMgr THEN AppendSkills(mwTools, list) ELSE mwTools
    IN IF Len(tools) > 1 THEN Deduplicate(tools) ELSE tools

NoTools == [mw |-> << >>, list |-> << >>, hasMgr |-> TRUE, sent |-> << >>, n |-> 0]

\* ---------------------------------------------------------- Chain.mu
Goroutines == 1..NumGoroutines

\* sync.RWMutex: a goroutine inside Lock() is in pending until it holds it
RWFree == [writer |-> 0, pending |-> {}, readers |-> [g \in Goroutines |-> 0]]

\* Lock() returns: no writer and no reader holds the mutex
RWCanLock(m) == m.writer = 0 /\ \A g \in Goroutines : m.readers[g] = 0

\* RLock() returns: no writer holds the mutex and none waits for it
RWCanRLock(m) == m.writer = 0 /\ m.pending = {}

RLock(m, g) == [m EXCEPT !.readers[g] = @ + 1]

RUnlock(m, g) == [m EXCEPT !.readers[g] = @ - 1]

\* Dispatch keeps the read lock over its loop
SnapshotKeepsLock(m, g) == m

\* Dispatch: c.mu.RUnlock() behind the copy
SnapshotUnlock(m, g) == RUnlock(m, g)

\* a goroutine outside the chain's methods
IdleGoroutine ==
    [pc |-> "idle", mws |-> << >>, at |-> << >>, pos |-> 0, visited |-> << >>,
     nested |-> FALSE, returned |-> FALSE]

\* ------------------------------------------------- localcache.LocalCache
EmptyMap == [x \in {} |-> << >>]

\* m[k] = v
Put(m, k, v) == [x \in DOMAIN m \cup {k} |-> IF x = k THEN v ELSE m[x]]

\* delete(m, k)
Delete(m, k) == [x \in DOMAIN m \ {k} |-> m[x]]

cacheEntry(response, timestamp) == [response |-> response, timestamp |-> timestamp]

\* an entry of exactly five minutes is still served
FreshAtLimit(age) == age <= CacheTTL

\* time.Since(entry.timestamp) < 5*time.Minute
Fresh(age) == age < CacheTTL

\* LocalCache.OnEvent at time t: the decision and the map it leaves
LocalCacheOnEvent(c, name, userText, llmText, t) ==
    IF name = EventBeforeLLMRequest
    THEN IF userText \in DOMAIN c
         THEN IF Fresh(t - c[userText].timestamp)
              THEN [dec |-> Decision(TRUE, <<"served from local cache">>,
                                     <<c[userText].response>>),
                    cache |-> c]
              ELSE [dec |-> NoOp, cache |-> Delete(c, userText)]
         ELSE [dec |-> NoOp, cache |-> c]
    ELSE IF name = EventAfterLLMResponse /\ userText # << >> /\ llmText # << >>
    THEN [dec |-> NoOp, cache |-> Put(c, userText, cacheEntry(llmText, t))]
    ELSE [dec |-> NoOp, cache |-> c]

NoProbe == [prior |-> << >>, at |-> 0]

IdleShare == [pc |-> "idle", text |-> << >>]

NoServed == [done |-> FALSE, chat |-> "", text |-> << >>, reply |-> << >>,
             cached |-> FALSE, by |-> ""]

\* -------------------------------------------- telegram session manager
Handlers == 1..NumHandlers

ChatIDs == {"x", "y"}

\* &userSession{service, cleanup, lastUse}, with what the model keeps of it:
\* who holds its mu, how often its cleanup ran, whether the map dropped it
userSession(chat, lastUse) ==
    [chat |-> chat, mu |-> 0, lastUse |-> lastUse, cleaned |-> 0, deleted |-> FALSE]

IdleHandler == [pc |-> "idle", chat |-> "x", session |-> 0]

\* the /clear handler before a request: n counts the requests it has served
IdleClear == [pc |-> "idle", chat |-> "x", session |-> 0, n |-> 0]

\* the goroutine of the /clear handler, as a holder of locks
ClearHandler == NumHandlers + 1

NoLock == [writer |-> 0, readers |-> {}]

\* sessionsMu.Lock() can be taken
CanLock(m) == m.writer = 0 /\ m.readers = {}

\* sessionsMu.RLock() can be taken
CanRLock(m) == m.writer = 0

\* the second look under the write lock is left out
FoundUnderLockSkipped(m, id) == FALSE

\* if session, exists := a.sessions[chatID]; exists, under the write lock
FoundUnderLock(m, id) == id \in DOMAIN m

\* a session idle for just the limit counts as expired
ExpiredAtLimit(u, t) == t - u.lastUse >= IdleLimit

\* time.Since(session.lastUse) > 2*time.Hour
Expired(u, t) == t - u.lastUse > IdleLimit

\* --------------------------------------------------------- memory store
MemSessions == {"s", "t"}

\* texts indexed and asked for: words set apart by single spaces
MemTexts ==
    {<< >>, <<" ">>, <<"a">>, <<"Go">>, <<"go!", " ", "fun">>,
     <<" ", "fun", " ", "is", " ", "a", "\n">>, <<"is", " ", "Go">>}

\* what Query is asked for
QueryTexts == {<<" ">>, <<"a">>, <<"go!", " ", "fun">>, <<"is", " ", "Go">>}

\* strings.ToLower, on one word
ToLower(w) == IF w = "Go" THEN "go" ELSE w

\* strings.Trim(p, ".,;:!?()[]{}\"'"), on one word
TrimPunct(w) == IF w = "go!" THEN "go" ELSE w

\* len, on one fragment (bytes)
FragLen(w) ==
    CASE w \in Space \cup {"a"} -> 1
      [] w \in {"Go", "go", "is"} -> 2
      [] OTHER -> 3

\* len(text)
RECURSIVE TextLen(_)
TextLen(t) == IF t = << >> THEN 0 ELSE FragLen(Head(t)) + TextLen(Tail(t))

\* strings.Fields
Fields(t) == SelectSeq(t, LAMBDA w : w \notin Space)

\* tokenSet: the lowercased, trimmed words of two bytes or more
tokenSet(t) ==
    {p \in {TrimPunct(ToLower(Fields(t)[n])) : n \in 1..Len(Fields(t))} : FragLen(p) >= 2}

\* overlap
overlap(a, b) == IF a = {} \/ b = {} THEN 0 ELSE Cardinality({k \in a : k \in b})

scored(text, score) == [text |-> text, score |-> score]

\* the length of the text is not looked at
LessByScoreOnly(x, y) == x.score > y.score

\* the less function handed to sort.Slice
Less(x, y) == IF x.score = y.score THEN TextLen(x.text) < TextLen(y.text) ELSE x.score > y.score

\* the documents of Query's loop that score above zero, in the order indexed
RECURSIVE Scored(_, _)
Scored(docs, qset) ==
    IF docs = << >> THEN << >>
    ELSE LET d == Head(docs)
             score == overlap(qset, tokenSet(d))
         IN (IF d # << >> /\ score > 0 THEN <<scored(d, score)>> ELSE << >>)
            \o Scored(Tail(docs), qset)

\* sort.Slice is not stable: every arrangement in which no element is less
\* than one before it
SortSlice(sc) ==
    {[n \in 1..Len(sc) |-> sc[p[n]]] :
        p \in {q \in [1..Len(sc) -> 1..Len(sc)] :
                  /\ \A m, n \in 1..Len(sc) : m # n => q[m] # q[n]
                  /\ \A m, n \in 1..Len(sc) : m < n => ~Less(sc[q[n]], sc[q[m]])}}

\* Store.Query on the documents of one session: what it may return
Query(docs, query, k) ==
    IF Len(docs) = 0 \/ TrimSpace(query) = << >> \/ k <= 0 THEN {<< >>}
    ELSE LET sc == Scored(docs, tokenSet(query)) IN
         IF Len(sc) = 0 THEN {<< >>}
         ELSE {[n \in 1..(IF Len(o) > k THEN k ELSE Len(o)) |-> o[n].text] : o \in SortSlice(sc)}

NoQuery == [done |-> FALSE, docs |-> << >>, query |-> << >>, k |-> 0, out |-> << >>]

\* ------------------------------------------------------ webui event buffer
Consumers == 1..NumConsumers

\* the n-th chunk emitted, with the text that goes into the channel
Chunk(n, text) == [n |-> n, text |-> text]

\* the channel never refuses a chunk
TrySendGrows(ch, msg) == [ch |-> Append(ch, msg), sent |-> TRUE]

\* select { case eventCh <- msg: default: }
TrySend(ch, msg) ==
    IF Len(ch) < EventCap THEN [ch |-> Append(ch, msg), sent |-> TRUE]
    ELSE [ch |-> ch, sent |-> FALSE]

\* --------------------------------------------------------- tool injectors
\* middleware.LLMParams: MaxTokens (0: unset), Tools, ToolChoice (a Go
\* interface value: << >> is nil)
LLMParams(maxTokens, tools, toolChoice) ==
    [MaxTokens |-> maxTokens, Tools |-> tools, ToolChoice |-> toolChoice]

\* &middleware.LLMParams{}
EmptyParams == LLMParams(0, << >>, << >>)

\* llms.Tool{Type: "function", Function: &llms.FunctionDefinition{Name: name}}
funcTool(name) == [Type |-> "function", Function |-> <<[Name |-> name]>>]

\* the injector starts from empty params
CopyParamsFresh(e) == EmptyParams

\* params := &mw.LLMParams{}; if e.Params != nil { *params = *e.Params }
CopyParams(e) == e.Params

CalendarToolList == <<funcTool("list_calendar_events"), funcTool("create_calendar_event")>>

\* codingtools baseTools()
baseTools ==
    <<funcTool("ls"), funcTool("mkdir"), funcTool("find"), funcTool("cp"),
      funcTool("mv"), funcTool("rm"), funcTool("git"), funcTool("grep"),
      funcTool("diff"), funcTool("pwd"), funcTool("read_file"), funcTool("write_file")>>

AlarmToolList == <<funcTool("alarm.set"), funcTool("timer.set")>>

NotesToolList == <<funcTool("notes")>>

\* notes toolRegistered
toolRegistered(tools, name) ==
    \E n \in 1..Len(tools) : tools[n].Function # << >> /\ tools[n].Function[1].Name = name

\* alarm upsertTool: the tool is appended unless one of its name is there
upsertTool(tools, t) ==
    IF toolRegistered(tools, t.Function[1].Name) THEN tools ELSE Append(tools, t)

\* params.ToolChoice = "auto" if it is nil
AutoIfNil(p) == IF p.ToolChoice = << >> THEN [p EXCEPT !.ToolChoice = <<"auto">>] ELSE p

\* a decision that only overrides the params
Override(p, reason) == FullDecision(FALSE, reason, << >>, <<p>>)

\* CalendarTools.OnEvent on before_llm_request
CalendarToolsOnEvent(e) ==
    Override(AutoIfNil([CopyParams(e) EXCEPT !.Tools = @ \o CalendarToolList]),
             <<"calendar_tools: injected tools">>)

\* CodingToolsMode.OnEvent on before_llm_request
CodingToolsModeOnEvent(e) ==
    Override([CopyParams(e) EXCEPT !.Tools = @ \o baseTools, !.ToolChoice = <<"auto">>],
             <<"coding_tools_mode: injected tools">>)

\* AlarmMode.OnEvent on before_llm_request; mid: the NLU intent is set_alarm
\* with a confidence from alarmLow up to alarmHigh
AlarmModeOnEvent(e, mid) ==
    LET p == [CopyParams(e) EXCEPT
                 !.Tools = upsertTool(upsertTool(@, AlarmToolList[1]), AlarmToolList[2])]
    IN IF ~mid THEN Override(p, <<"alarm_mode: providing tool to LLM">>)
       ELSE Override(AutoIfNil(p), <<"alarm_mode: mid-confidence; tool enabled; LLM decides">>)

\* NotesMode.OnEvent on before_llm_request
NotesModeOnEvent(e) ==
    LET p == CopyParams(e)
        q == IF toolRegistered(p.Tools, "notes") THEN p
             ELSE [p EXCEPT !.Tools = Append(@, NotesToolList[1])]
    IN Override([q EXCEPT !.ToolChoice = <<"auto">>], <<"notes_mode: inject tool schema">>)

\* BudgetLimiter.OnEvent on before_llm_request; budget is
\* e.Context["token_budget"], 0 when there is none
BudgetLimiterOnEvent(e, budget) ==
    LET p == CopyParams(e) IN
    IF budget <= 0 THEN ZeroDecision
    ELSE IF p.MaxTokens = 0 \/ p.MaxTokens > budget
    THEN Override([p EXCEPT !.MaxTokens = budget], <<"token_budget: capped MaxTokens">>)
    ELSE ZeroDecision

ToolInjectors == {"calendar_tools", "coding_tools_mode", "alarm_mode", "notes_mode"}

InjectorKinds == ToolInjectors \cup {"token_budget"}

\* the interceptors whose ShouldLoad looks at a flag of the context
FlagLoaded == {"calendar_tools", "coding_tools_mode"}

InjectorOnEvent(kind, e, mid, budget) ==
    CASE kind = "calendar_tools" -> CalendarToolsOnEvent(e)
      [] kind = "coding_tools_mode" -> CodingToolsModeOnEvent(e)
      [] kind = "alarm_mode" -> AlarmModeOnEvent(e, mid)
      [] kind = "notes_mode" -> NotesModeOnEvent(e)
      [] OTHER -> BudgetLimiterOnEvent(e, budget)

\* the tools an injector brings
InjectedTools(kind) ==
    CASE kind = "calendar_tools" -> CalendarToolList
      [] kind = "coding_tools_mode" -> baseTools
      [] kind = "alarm_mode" -> AlarmToolList
      [] kind = "notes_mode" -> NotesToolList
      [] OTHER -> << >>

\* the chains of a dispatch: interceptors of different kinds, in any order
InjectorChains ==
    UNION {{c \in [1..n -> InjectorKinds] : \A i, j \in 1..n : i # j => c[i] # c[j]} :
              n \in 0..MaxInjectors}

Budgets == {0, 100}

NoInject ==
    [pc |-> "idle", mws |-> << >>, pos |-> 0, e |-> Event("", << >>, << >>, EmptyParams),
     mid |-> FALSE, budget |-> 0, log |-> << >>]

\* --------------------------------------------------------- tool executors
\* what an executor reads of middleware.ToolCall.Args: a key that is absent
\* or of another type reads as "" (as 0 for minutes)
Args(time, label, minutes, startDate, title) ==
    [time |-> time, label |-> label, minutes |-> minutes, start_date |-> startDate,
     title |-> title]

NoArgs == Args("", "", 0, "", "")

\* middleware.ToolCall
mwToolCall(tool, args) == [Tool |-> tool, Args |-> args]

\* the dates time.Parse("2006-01-02", start) accepts
ValidDates == {"2026-02-25"}

ExecCalls ==
    {mwToolCall("alarm.set", NoArgs),
     mwToolCall("alarm.set", Args("07:30", "", 0, "", "")),
     mwToolCall("alarm.set", Args("07:30", "wake", 0, "", "")),
     mwToolCall("timer.set", NoArgs),
     mwToolCall("timer.set", Args("", "", 5, "", "")),
     mwToolCall("list_calendar_events", Args("", "", 0, "2026-02-25", "")),
     mwToolCall("list_calendar_events", Args("", "", 0, "soon", "")),
     mwToolCall("create_calendar_event", Args("", "", 0, "", "sync")),
     mwToolCall("ls", NoArgs)}

ExecCallLists == UNION {[1..n -> ExecCalls] : n \in 0..MaxToolCalls}

Executors == {"alarm_exec", "calendar_exec"}

\* every call counts as handled
HandlesAll(kind, tool) == TRUE

\* the call names an executor's loop has a branch for
Handles(kind, tool) ==
    IF kind = "alarm_exec" THEN tool \in {"alarm.set", "timer.set"}
    ELSE tool \in {"list_calendar_events", "create_calendar_event"}

\* runAlarmTool: its output and the alarms file it leaves
runAlarmTool(tc, alarms) ==
    IF TrimSpace(<<tc.Args.time>>) = << >> \/ tc.Args.time = ""
    THEN [out |-> <<"alarm.set: missing required arg \"time\"">>, alarms |-> alarms]
    ELSE [out |-> IF tc.Args.label = ""
                  THEN <<"ok: alarm set for ", tc.Args.time, " (persisted)">>
                  ELSE <<"ok: alarm set for ", tc.Args.time, " (", tc.Args.label,
                         ") (persisted)">>,
          alarms |-> Append(alarms, [Time |-> tc.Args.time, Label |-> tc.Args.label])]

\* alarms.json before the first write: os.ReadFile fails and alarms stays nil
NoFile == [data |-> << >>, torn |-> FALSE]

IdleAlarm == [pc |-> "idle", tc |-> mwToolCall("alarm.set", NoArgs), alarms |-> << >>,
              newData |-> << >>, calls |-> 0]

\* the alarm.set calls the goroutines make
AlarmCalls ==
    {mwToolCall("alarm.set", NoArgs),
     mwToolCall("alarm.set", Args("07:30", "", 0, "", "")),
     mwToolCall("alarm.set", Args("08:00", "wake", 0, "", ""))}

\* runAlarmTool starts on goroutine g: the test of the time argument
AlarmBegin(g, tc) ==
    /\ ag[g].pc = "idle"
    /\ ag[g].calls < MaxAlarmCalls
    /\ ag' = [ag EXCEPT ![g] =
                 [@ EXCEPT !.tc = tc, !.calls = @ + 1, !.alarms = << >>, !.newData = << >>,
                           !.pc = IF runAlarmTool(tc, << >>).alarms = << >>
                                  THEN "idle" ELSE "read"]]
    /\ UNCHANGED <<afile, okd>>

\* os.ReadFile and json.Unmarshal: a file that is missing, cut short by a
\* write under way, or overlaid by two writes leaves alarms nil; then the
\* append and MarshalIndent
AlarmRead(g) ==
    LET alarms == IF afile.torn THEN << >> ELSE afile.data IN
    /\ ag[g].pc = "read"
    /\ ag' = [ag EXCEPT ![g] =
                 [@ EXCEPT !.alarms = alarms,
                           !.newData = runAlarmTool(ag[g].tc, alarms).alarms,
                           !.pc = "open"]]
    /\ UNCHANGED <<afile, okd>>

\* os.WriteFile opens the file with O_TRUNC
AlarmOpen(g) ==
    /\ ag[g].pc = "open"
    /\ afile' = [data |-> << >>, torn |-> TRUE]
    /\ ag' = [ag EXCEPT ![g].pc = "write"]
    /\ UNCHANGED okd

\* os.WriteFile writes newData from offset 0 and closes; what another write
\* has put behind the end of newData since the open stays in the file.
\* runAlarmTool returns its "ok" text.
AlarmWrite(g) ==
    /\ ag[g].pc = "write"
    /\ afile' = IF Len(afile.data) > Len(ag[g].newData)
                THEN [data |-> afile.data, torn |-> TRUE]
                ELSE [data |-> ag[g].newData, torn |-> FALSE]
    /\ okd' = Append(okd, [Time |-> ag[g].tc.Args.time, Label |-> ag[g].tc.Args.label])
    /\ ag' = [ag EXCEPT ![g].pc = "idle"]

\* runTimerTool: its output and whether a process was started; started is
\* whether cmd.Start succeeds
runTimerTool(tc, started) ==
    IF tc.Args.minutes <= 0
    THEN [out |-> <<"timer.set: invalid or missing 'minutes' argument">>, timers |-> 0]
    ELSE IF ~started THEN [out |-> <<"timer.set failed to start: ", "err">>, timers |-> 0]
    ELSE [out |-> <<"ok: timer set for ", "5.0", " minutes with message: '",
                    "Timer finished!", "'">>, timers |-> 1]

listCalendarEvents(start) ==
    IF start \notin ValidDates
    THEN <<"error: invalid start_date format '", start, "', expected YYYY-MM-DD">>
    ELSE <<"[MOCK] list_calendar_events: found 1 event on ", start, "\n- 10:00 AM: Team Sync">>

createCalendarEvent(title, start, end) ==
    <<"[MOCK] create_calendar_event: created '", title, "' from ", start, " to ", end>>

\* strings.Join(outputs, "\n\n")
RECURSIVE JoinOutputs(_)
JoinOutputs(outputs) ==
    IF outputs = << >> THEN << >>
    ELSE IF Len(outputs) = 1 THEN outputs[1]
    ELSE outputs[1] \o <<"\n\n">> \o JoinOutputs(Tail(outputs))

\* the loop over the calls of an executor's OnEvent, from call n on; st holds
\* outputs, handled, the calls run with what they returned, and the effects
RECURSIVE ExecLoop(_, _, _, _, _)
ExecLoop(kind, raw, starts, n, st) ==
    IF n > Len(raw) THEN st
    ELSE
    LET tc == raw[n] IN
    IF ~Handles(kind, tc.Tool) THEN ExecLoop(kind, raw, starts, n + 1, st)
    ELSE IF kind = "alarm_exec"
    THEN LET a == runAlarmTool(tc, st.alarms)
             t == runTimerTool(tc, starts[n])
             out == IF tc.Tool = "alarm.set" THEN a.out
                    ELSE IF tc.Tool = "timer.set" THEN t.out ELSE << >>
         IN ExecLoop(kind, raw, starts, n + 1,
              [st EXCEPT !.handled = TRUE,
                         !.outputs = IF TrimSpace(out) # << >> THEN Append(@, out) ELSE @,
                         !.ran = Append(@, [tc |-> tc, out |-> out]),
                         !.alarms = IF tc.Tool = "alarm.set" THEN a.alarms ELSE @,
                         !.timers = IF tc.Tool = "timer.set" THEN @ + t.timers ELSE @])
    ELSE LET out == IF tc.Tool = "list_calendar_events"
                    THEN listCalendarEvents(tc.Args.start_date)
                    ELSE IF tc.Tool = "create_calendar_event"
                    THEN createCalendarEvent(tc.Args.title, "", "")
                    ELSE << >>
         IN ExecLoop(kind, raw, starts, n + 1,
              [st EXCEPT !.handled = TRUE,
                         !.outputs = Append(@, out),
                         !.ran = Append(@, [tc |-> tc, out |-> out])])

\* the executor goes on to its decision whatever it handled
NoneHandledNever(kind, st) == FALSE

\* if !handled (AlarmExec), if len(outputs) == 0 (CalendarExec)
NoneHandled(kind, st) ==
    IF kind = "alarm_exec" THEN ~st.handled ELSE Len(st.outputs) = 0

\* AlarmExec.OnEvent / CalendarExec.OnEvent: the decision with the calls run
\* and the effects; raw is context["tool_calls"]
ExecOnEvent(kind, name, raw, starts, alarms, timers) ==
    LET st0 == [outputs |-> << >>, handled |-> FALSE, ran |-> << >>,
                alarms |-> alarms, timers |-> timers]
        st == ExecLoop(kind, raw, starts, 1, st0)
    IN
    IF name # EventAfterLLMResponse \/ Len(raw) = 0 THEN [st0 EXCEPT !.outputs = ZeroDecision]
    ELSE IF NoneHandled(kind, st) THEN [st EXCEPT !.outputs = ZeroDecision]
    ELSE [st EXCEPT !.outputs =
            FullDecision(TRUE, <<kind>>, <<JoinOutputs(st.outputs)>>, << >>)]

NoExec ==
    [kind |-> "alarm_exec", name |-> EventAfterLLMResponse, raw |-> << >>,
     dec |-> ZeroDecision, ran |-> << >>, alarms |-> << >>, timers |-> 0, n |-> 0]

\* ------------------------------------------------------------------ actions
Init ==
    /\ history = << >>
    /\ mu = 0
    /\ mem = << >>
    /\ mws \in {NilChain, MaxChain}
    /\ call = [c \in Clients |-> IdleCall]
    /\ last = NoCall
    /\ calls = 0
    /\ rich = 0
    /\ llmCalls = 0
    /\ chain = << >>
    /\ disp = NoDispatch
    /\ cache = EmptyMap
    /\ now = 0
    /\ answered = EmptyMap
    /\ probe = NoProbe
    /\ sessions = EmptyMap
    /\ sessionsMu = NoLock
    /\ sess = << >>
    /\ hnd = [g \in Handlers |-> IdleHandler]
    /\ hour = 0
    /\ msgs = 0
    /\ stopped = FALSE
    /\ webSessions = EmptyMap
    /\ webMade = << >>
    /\ store = [m \in MemSessions |-> << >>]
    /\ asked = NoQuery
    /\ eventCh = << >>
    /\ emitted = 0
    /\ dropped = {}
    /\ delivered = [c \in Consumers |-> << >>]
    /\ inj = NoInject
    /\ exe = NoExec
    /\ chainMu = RWFree
    /\ gor = [g \in Goroutines |-> IdleGoroutine]
    /\ tl = NoTools
    /\ clr = IdleClear
    /\ svcMu = [n \in 1..MaxSessions |-> 0]
    /\ sh = [id \in ChatIDs |-> IdleShare]
    /\ owner = EmptyMap
    /\ served = NoServed
    /\ afile = NoFile
    /\ ag = [g \in Goroutines |-> IdleAlarm]
    /\ okd = << >>

\* the lock is not taken
LockFreeNoLock(m) == TRUE

\* s.mu.Lock() can be taken
LockFree(m) == m = 0

\* the error of the pre-LLM dispatch is ignored
AbortsOnErrorIgnored(err) == FALSE

\* if err != nil { return "", err } after the pre-LLM dispatch
AbortsOnError(err) == err # << >>

\* only the assistant message is appended
CancelHistoryAssistantOnly(pruned, input, updated) ==
    Append(pruned, Message(RoleAssistant, updated, << >>, "", ""))

\* s.history after a cancel with a replacement text (not a heartbeat)
CancelHistory(pruned, input, updated) ==
    pruned \o <<Message(RoleUser, input, << >>, "", ""),
                Message(RoleAssistant, updated, << >>, "", "")>>

\* the pending user message is appended to s.history before the loop
LoopEntryHistoryAppendsUser(pruned, input) ==
    Append(pruned, Message(RoleUser, input, << >>, "", ""))

\* s.history when the agent loop starts: the turn works on currentHistory, a
\* copy, and leaves s.history as it is
LoopEntryHistory(pruned, input) == pruned

\* one iteration too many
LoopContinuesOneMore(i) == i <= maxIterations

\* for i := 0; i < maxIterations; i++
LoopContinues(i) == i < maxIterations

\* the break is missing
AfterReplyNoBreak(n) == "tools"

\* after the assistant message is recorded: break when there are no tool calls
AfterReply(n) == IF n = 0 THEN "finish" ELSE "tools"

\* return from SendWithContext: the deferred s.mu.Unlock() runs
Return(c, k, reply, err) ==
    /\ call' = [call EXCEPT ![c] = IdleCall]
    /\ last' = [done |-> TRUE, client |-> c, reply |-> reply, err |-> err, k |-> k]
    /\ mu' = 0

\* Service.Clear
Clear(c) ==
    /\ call[c].pc = "idle"
    /\ calls < MaxCalls
    /\ LockFree(mu)
    /\ history' = << >>
    /\ calls' = calls + 1
    /\ last' = NoCall
    /\ UNCHANGED <<mu, mem, mws, call, rich, llmCalls>>

\* the callbacks run in heartbeat turns too
SilentNever(isHeartbeat) == FALSE

\* if !isHeartbeat around every call of s.streamCb and s.statusCb
Silent(isHeartbeat) == isHeartbeat

\* a heartbeat turn is recorded like any other
RecordedAlways(isHeartbeat) == TRUE

\* if !isHeartbeat, the guard of the writes to s.history and of s.mem.Index
Recorded(isHeartbeat) == ~isHeartbeat

\* no input is rejected
InputEmptyNever(input) == FALSE

\* if input == "" after strings.TrimSpace
InputEmpty(input) == input = << >>

\* SendWithContext up to the agent loop: trim, prune, pre-LLM dispatch and
\* the handling of a cancel. hb is mwCtx["is_heartbeat"]; Send passes no
\* context, which is hb = FALSE.
SendWithContext(c, rawInput, hb, outs) ==
    /\ call[c].pc = "idle"
    /\ calls < MaxCalls
    /\ LockFree(mu)
    /\ calls' = calls + 1
    /\ UNCHANGED <<mem, mws, rich, llmCalls>>
    /\ LET input == TrimSpace(rawInput)
           k0 == [IdleCall EXCEPT !.input = input, !.isHeartbeat = hb,
                                  !.histEntry = history, !.memEntry = mem]
       IN
       IF InputEmpty(input)
       THEN /\ Return(c, k0, << >>, <<"empty input">>)
            /\ UNCHANGED history
       ELSE
       LET pruned == Prune(history)
           d == IF mws = NilChain THEN [results |-> << >>, err |-> << >>] ELSE Dispatch(outs)
           a == IF mws = NilChain THEN [updated |-> input, canceled |-> << >>]
                ELSE applyTextDecisions(input, d.results)
           n == IF mws = NilChain THEN 0 ELSE 1
           k1 == [k0 EXCEPT !.updated = a.updated, !.canceled = a.canceled,
                            !.dispatchErr = d.err, !.dispatches = n, !.memQueries = 1]
       IN
       IF AbortsOnError(d.err)
       THEN /\ Return(c, [k0 EXCEPT !.dispatchErr = d.err, !.dispatches = n,
                                      !.memQueries = 1], << >>, d.err)
            /\ history' = pruned
       ELSE IF a.canceled # << >> /\ a.canceled[1].Cancel
       THEN IF TrimSpace(a.updated) # << >>
            THEN IF Recorded(hb)
                 THEN /\ history' = CancelHistory(pruned, input, a.updated)
                      /\ Return(c, [k1 EXCEPT !.stream = <<Append(a.updated, "\n")>>],
                                a.updated, << >>)
                 ELSE /\ history' = pruned
                      /\ Return(c, k1, a.updated, << >>)
            ELSE /\ history' = pruned
                 /\ IF TrimSpace(a.canceled[1].Reason) = << >>
                    THEN Return(c, k1, << >>, <<"request canceled by middleware">>)
                    ELSE Return(c, k1, << >>, a.canceled[1].Reason)
       ELSE /\ history' = LoopEntryHistory(pruned, a.updated)
            /\ mu' = c
            /\ last' = NoCall
            /\ call' = [call EXCEPT ![c] =
                  [k1 EXCEPT !.pc = "loop", !.input = a.updated,
                             !.currentHistory = Append(pruned,
                                 Message(RoleUser, a.updated, << >>, "", ""))]]

\* the event executeMiddlewareTool hands to Dispatch: its context holds the
\* one call under tool_calls; json.Unmarshal of "{}" and of a text that
\* does not parse both leave a map without keys
toolEvent(t) ==
    [Name |-> EventAfterLLMResponse, tool_calls |-> <<mwToolCall(t.Name, NoArgs)>>]

\* the first result that carries a ReplaceText is taken, cancelled or not
executeMiddlewareToolAnyReplace(outs) ==
    IF mws = NilChain THEN [out |-> << >>, err |-> <<"no middleware chain">>]
    ELSE LET d == Dispatch(outs)
             hits == {n \in 1..Len(d.results) : d.results[n].ReplaceText # << >>}
         IN IF d.err # << >> THEN [out |-> << >>, err |-> d.err]
            ELSE IF hits # {}
            THEN [out |-> d.results[CHOOSE n \in hits : \A m \in hits : n <= m].ReplaceText[1],
                  err |-> << >>]
            ELSE [out |-> << >>, err |-> <<"no middleware handled this tool">>]

\* Service.executeMiddlewareTool: [out, err]
executeMiddlewareTool(outs) ==
    IF mws = NilChain THEN [out |-> << >>, err |-> <<"no middleware chain">>]
    ELSE LET d == Dispatch(outs)
             hits == {n \in 1..Len(d.results) :
                         d.results[n].Cancel /\ d.results[n].ReplaceText # << >>}
         IN IF d.err # << >> THEN [out |-> << >>, err |-> d.err]
            ELSE IF hits # {}
            THEN [out |-> d.results[CHOOSE n \in hits : \A m \in hits : n <= m].ReplaceText[1],
                  err |-> << >>]
            ELSE [out |-> << >>, err |-> <<"no middleware handled this tool">>]

\* the error of skill.Execute is dropped and its output is taken
ExecuteToolDropsError(t, outs) ==
    LET result ==
            IF t.Name \in Skills
            THEN IF ~ValidJSON(t.Arguments)
                 THEN <<"Error: Invalid arguments JSON: ", "unexpected end of JSON input">>
                 ELSE SkillExecute(t.Name).out
            ELSE LET m == executeMiddlewareTool(outs)
                 IN IF m.err = << >> THEN m.out
                    ELSE <<"Error: Tool '", t.Name, "' not found.">>
    IN IF result = << >> THEN <<"Success (no output)">> ELSE result

\* the body of one tool goroutine: the text of the tool result
ExecuteTool(t, outs) ==
    LET result ==
            IF t.Name \in Skills
            THEN IF ~ValidJSON(t.Arguments)
                 THEN <<"Error: Invalid arguments JSON: ", "unexpected end of JSON input">>
                 ELSE LET r == SkillExecute(t.Name)
                      IN IF r.err # << >> THEN <<"Error executing tool: ">> \o r.err
                         ELSE r.out
            ELSE LET m == executeMiddlewareTool(outs)
                 IN IF m.err = << >> THEN m.out
                    ELSE <<"Error: Tool '", t.Name, "' not found.">>
    IN IF result = << >> THEN <<"Success (no output)">> ELSE result

\* what the adapter may reply in iteration i of a turn: any reply in the first
\* MaxScript iterations, and from then on one more plain tool call
AdapterReplies(i) ==
    IF i < MaxScript
    THEN FinalReplies \cup ErrorReplies \cup {PlainToolReply}
         \cup (IF rich < MaxRich THEN RichToolReplies ELSE {})
    ELSE {PlainToolReply}

\* the result goes to the first slot that is still empty: completion order
StoreResultInCompletionOrder(results, i, msg) ==
    LET free == {n \in 1..Len(results) : results[n] = ZeroMessage}
    IN IF free = {} THEN results
       ELSE [results EXCEPT ![CHOOSE n \in free : \A m \in free : n <= m] = msg]

\* results[i] = Message{...}: the goroutine stores at the index of its call
StoreResult(results, i, msg) == [results EXCEPT ![i] = msg]

\* one iteration's call of s.adapter.ReplyStream and what follows it up to
\* the start of the tool goroutines. The adapter hands its text to the
\* stream callback as one chunk.
AdapterCall(c, r) ==
    LET k == call[c]
        chunks == (IF r.text # << >> /\ ~Silent(k.isHeartbeat) THEN <<r.text>> ELSE << >>)
                  \o (IF k.i = 0 /\ ~Silent(k.isHeartbeat) THEN << <<"\n">> >> ELSE << >>)
        k1 == [k EXCEPT !.adapterCalls = @ + 1, !.stream = @ \o chunks]
        n == Len(r.toolCalls)
    IN
    /\ k.pc = "loop"
    /\ llmCalls < MaxAdapterCalls
    /\ llmCalls' = llmCalls + 1
    /\ r \in AdapterReplies(k.i)
    /\ rich' = IF r \in RichToolReplies THEN rich + 1 ELSE rich
    /\ UNCHANGED <<history, mem, mws, calls>>
    /\ IF r.err # << >>
       THEN Return(c, k1, << >>, r.err)
       ELSE /\ UNCHANGED <<mu, last>>
            /\ call' = [call EXCEPT ![c] =
                 [k1 EXCEPT
                    !.currentHistory =
                        Append(@, Message(RoleAssistant, r.text, r.toolCalls, "", "")),
                    !.toolCalls = r.toolCalls,
                    !.finalResponse = IF n = 0 THEN r.text ELSE @,
                    !.results = [j \in 1..n |-> ZeroMessage],
                    !.pending = 1..n,
                    !.doneOrder = << >>,
                    !.pc = AfterReply(n)]]

\* one tool goroutine runs to its wg.Done()
ToolWorker(c, j, outs) ==
    LET k == call[c]
        t == k.toolCalls[j]
    IN
    /\ k.pc = "tools"
    /\ j \in k.pending
    /\ outs \in (IF t.Name \in Skills THEN {<< >>} ELSE ToolChainOuts)
    /\ call' = [call EXCEPT ![c] =
         [k EXCEPT
            !.results = StoreResult(@, j,
                Message(RoleTool, ExecuteTool(t, outs), << >>, t.ID, t.Name)),
            !.pending = @ \ {j},
            !.doneOrder = Append(@, j),
            !.toolRuns = @ + 1,
            !.dispatches = IF t.Name \in Skills \/ mws = NilChain THEN @ ELSE @ + 1,
            !.skillRuns = IF t.Name \in Skills /\ ValidJSON(t.Arguments)
                          THEN @ \cup {j} ELSE @,
            !.mwRuns = IF t.Name \in Skills \/ mws = NilChain THEN @ ELSE @ \cup {j},
            !.toolDispatch = IF t.Name \in Skills \/ mws = NilChain THEN @
                             ELSE Append(@, [j |-> j, e |-> toolEvent(t), d |-> Dispatch(outs)]),
            !.status = IF Silent(k.isHeartbeat) THEN @ ELSE @ + 2]]
    /\ UNCHANGED <<history, mu, mem, mws, last, calls, rich, llmCalls>>

\* wg.Wait() returns
AllDone(k) == k.pending = {}

\* after wg.Wait(): append the results and go to the next iteration
Join(c) ==
    LET k == call[c] IN
    /\ k.pc = "tools"
    /\ AllDone(k)
    /\ call' = [call EXCEPT ![c] =
         [k EXCEPT !.currentHistory = @ \o k.results,
                   !.i = @ + 1,
                   !.toolCalls = << >>,
                   !.results = << >>,
                   !.skillRuns = {},
                   !.mwRuns = {},
                   !.toolDispatch = << >>,
                   !.pc = IF LoopContinues(k.i + 1) THEN "loop" ELSE "finish"]]
    /\ UNCHANGED <<history, mu, mem, mws, last, calls, rich, llmCalls>>

\* the loop-local user message is not skipped
CommitHistoryKeepsLoopUser(h, cur, input) ==
    LET h1 == Append(h, Message(RoleUser, input, << >>, "", ""))
    IN IF Len(cur) > Len(h) THEN h1 \o SubSeq(cur, Len(h) + 1, Len(cur)) ELSE h1

\* only the user message is committed
CommitHistoryUserOnly(h, cur, input) == Append(h, Message(RoleUser, input, << >>, "", ""))

\* s.history after the commit of lines 319-325
CommitHistory(h, cur, input) ==
    LET h1 == Append(h, Message(RoleUser, input, << >>, "", ""))
    IN IF Len(cur) > Len(h1) THEN h1 \o SubSeq(cur, Len(h1) + 1, Len(cur)) ELSE h1

\* a cancel takes the current text even when it is blank
PostDispatchTakesBlank(finalResponse, outs) ==
    IF mws = NilChain THEN finalResponse
    ELSE LET d == Dispatch(outs)
             a == applyTextDecisions(finalResponse, d.results)
         IN IF d.err # << >> THEN finalResponse ELSE a.updated

\* finalResponse after the post-LLM dispatch of lines 327-350
PostDispatch(finalResponse, outs) ==
    IF mws = NilChain THEN finalResponse
    ELSE LET d == Dispatch(outs)
             a == applyTextDecisions(finalResponse, d.results)
         IN IF d.err # << >> THEN finalResponse
            ELSE IF a.canceled # << >> /\ a.canceled[1].Cancel
            THEN IF TrimSpace(a.updated) # << >> THEN a.updated ELSE finalResponse
            ELSE a.updated

\* after the loop: commit the history, post-LLM dispatch, index memory, return
Finish(c, outs) ==
    LET k == call[c]
        final == PostDispatch(k.finalResponse, outs)
    IN
    /\ k.pc = "finish"
    /\ outs \in ChainOuts
    /\ history' = IF Recorded(k.isHeartbeat)
                  THEN CommitHistory(history, k.currentHistory, k.input)
                  ELSE history
    /\ mem' = IF Recorded(k.isHeartbeat) THEN Index(Index(mem, k.input), final) ELSE mem
    /\ Return(c, [k EXCEPT !.post = IF mws = NilChain THEN << >> ELSE <<Dispatch(outs)>>,
                            !.dispatches = IF mws = NilChain THEN @ ELSE @ + 1],
              final, << >>)
    /\ UNCHANGED <<mws, calls, rich, llmCalls>>

AllReplies == FinalReplies \cup ErrorReplies \cup {PlainToolReply} \cup RichToolReplies

\* one caller: the turns of a session follow one another
Next ==
    \/ Clear(1) /\ UNCHANGED besideService
    \/ \E rawInput \in InputTexts, hb \in BOOLEAN, outs \in ChainOuts :
          SendWithContext(1, rawInput, hb, outs) /\ UNCHANGED besideService
    \/ \E r \in AllReplies : AdapterCall(1, r) /\ UNCHANGED besideService
    \/ \E j \in 1..2, outs \in ToolChainOuts \cup {<< >>} :
          ToolWorker(1, j, outs) /\ UNCHANGED besideService
    \/ Join(1) /\ UNCHANGED besideService
    \/ \E outs \in ChainOuts : Finish(1, outs) /\ UNCHANGED besideService

Spec == Init /\ [][Next]_vars

\* several goroutines call into the same Service
NextLock ==
    \/ \E c \in Clients : Clear(c) /\ UNCHANGED besideService
    \/ \E c \in Clients, rawInput \in InputTexts, hb \in BOOLEAN, outs \in ChainOuts :
          SendWithContext(c, rawInput, hb, outs) /\ UNCHANGED besideService
    \/ \E c \in Clients, r \in AllReplies :
          llmCalls < LockAdapterCalls /\ AdapterCall(c, r) /\ UNCHANGED besideService
    \/ \E c \in Clients, j \in 1..2, outs \in ToolChainOuts \cup {<< >>} :
          ToolWorker(c, j, outs) /\ UNCHANGED besideService
    \/ \E c \in Clients : Join(c) /\ UNCHANGED besideService
    \/ \E c \in Clients, outs \in ChainOuts : Finish(c, outs) /\ UNCHANGED besideService

SpecLock == Init /\ [][NextLock]_vars

\* the chain on its own: interceptors are registered while events are dispatched
NextChain ==
    \/ \E priority \in Priorities, conditional \in BOOLEAN :
          Use(priority, conditional) /\ UNCHANGED besideChain
    \/ \E name \in EventNames : DispatchBegin(name) /\ UNCHANGED besideChain
    \/ \E load \in BOOLEAN, out \in UNION {OnEventOutcomes(Ids[n]) : n \in 1..MaxUse} :
          DispatchStep(load, out) /\ UNCHANGED besideChain

\* a chain of its own, beside a Service that has none
InitChain == Init /\ mws = NilChain

SpecChain == InitChain /\ [][NextChain]_vars

\* a Service whose chain holds the local cache alone
InitCache ==
    /\ history = << >>
    /\ mu = 0
    /\ mem = << >>
    /\ mws = 1
    /\ call = [c \in Clients |-> IdleCall]
    /\ last = NoCall
    /\ calls = 0
    /\ rich = 0
    /\ llmCalls = 0
    /\ chain = << >>
    /\ disp = NoDispatch
    /\ cache = EmptyMap
    /\ now = 0
    /\ answered = EmptyMap
    /\ probe = NoProbe
    /\ sessions = EmptyMap
    /\ sessionsMu = NoLock
    /\ sess = << >>
    /\ hnd = [g \in Handlers |-> IdleHandler]
    /\ hour = 0
    /\ msgs = 0
    /\ stopped = FALSE
    /\ webSessions = EmptyMap
    /\ webMade = << >>
    /\ store = [m \in MemSessions |-> << >>]
    /\ asked = NoQuery
    /\ eventCh = << >>
    /\ emitted = 0
    /\ dropped = {}
    /\ delivered = [c \in Consumers |-> << >>]
    /\ inj = NoInject
    /\ exe = NoExec
    /\ chainMu = RWFree
    /\ gor = [g \in Goroutines |-> IdleGoroutine]
    /\ tl = NoTools
    /\ clr = IdleClear
    /\ svcMu = [n \in 1..MaxSessions |-> 0]
    /\ sh = [id \in ChatIDs |-> IdleShare]
    /\ owner = EmptyMap
    /\ served = NoServed
    /\ afile = NoFile
    /\ ag = [g \in Goroutines |-> IdleAlarm]
    /\ okd = << >>

CacheInputs == {<< >>, <<"q">>, <<" ", "q", "\n">>, <<"p">>}

\* the clock advances: between the turns, and between the end of a turn's loop
\* and its post-LLM dispatch
Tick ==
    /\ now < MaxTime
    /\ call[1].pc \in {"idle", "finish"}
    /\ now' = now + 1
    /\ UNCHANGED <<svcVars, cache, answered, probe>>

\* SendWithContext, the pre-LLM dispatch reaching LocalCache.OnEvent
CacheSend(rawInput, hb) ==
    LET input == TrimSpace(rawInput)
        r == LocalCacheOnEvent(cache, EventBeforeLLMRequest, input, << >>, now)
    IN
    /\ SendWithContext(1, rawInput, hb, <<[dec |-> r.dec, err |-> << >>]>>)
    /\ cache' = IF InputEmpty(input) THEN cache ELSE r.cache
    /\ probe' = [prior |-> IF input \in DOMAIN answered THEN <<answered[input]>> ELSE << >>,
                 at |-> now]
    /\ UNCHANGED <<now, answered>>

\* a tool goroutine; the event of executeMiddlewareTool carries no texts, and
\* LocalCache answers it with the zero decision
CacheToolWorker(j) ==
    /\ \E outs \in {<< >>, <<[dec |-> NoOp, err |-> << >>]>>} : ToolWorker(1, j, outs)
    /\ UNCHANGED cacheVars

\* the end of the turn, the post-LLM dispatch reaching LocalCache.OnEvent
CacheFinish ==
    LET k == call[1]
        r == LocalCacheOnEvent(cache, EventAfterLLMResponse, k.input, k.finalResponse, now)
    IN
    /\ Finish(1, <<[dec |-> r.dec, err |-> << >>]>>)
    /\ cache' = r.cache
    /\ answered' = Put(answered, k.input,
                       [final |-> k.finalResponse, reply |-> last'.reply, at |-> now])
    /\ UNCHANGED <<now, probe>>

NextCache ==
    \/ Tick /\ UNCHANGED besideCache
    \/ \E rawInput \in CacheInputs, hb \in BOOLEAN :
          CacheSend(rawInput, hb) /\ UNCHANGED besideCache
    \/ \E r \in FinalReplies \cup ErrorReplies \cup {PlainToolReply} :
          AdapterCall(1, r) /\ UNCHANGED <<besideCache, cacheVars>>
    \/ \E j \in 1..2 : CacheToolWorker(j) /\ UNCHANGED besideCache
    \/ Join(1) /\ UNCHANGED <<besideCache, cacheVars>>
    \/ CacheFinish /\ UNCHANGED besideCache

SpecCache == InitCache /\ [][NextCache]_vars

\* ------------------------- two sessions, one LocalCache (registry.go:14-54)
ShareTexts == {<<"q">>, <<"p">>}

ShareReplies == {<<"a">>, <<"b">>, << >>}

\* the turn of chat id's Service on text, up to the adapter call: the pre-LLM
\* dispatch reaches the LocalCache that init registered, the same value in
\* every chain NewChainFromRegistry builds
ShareSend(id, text) ==
    LET r == LocalCacheOnEvent(cache, EventBeforeLLMRequest, text, << >>, now)
        a == applyTextDecisions(text, <<r.dec>>)
    IN
    /\ sh[id].pc = "idle"
    /\ cache' = r.cache
    /\ UNCHANGED <<now, answered, probe, owner>>
    /\ IF a.canceled # << >> /\ a.canceled[1].Cancel /\ TrimSpace(a.updated) # << >>
       THEN /\ served' = [done |-> TRUE, chat |-> id, text |-> text, reply |-> a.updated,
                          cached |-> TRUE, by |-> owner[text]]
            /\ UNCHANGED sh
       ELSE /\ served' = NoServed
            /\ sh' = [sh EXCEPT ![id] = [pc |-> "llm", text |-> text]]

\* the adapter answered chat id's turn with reply: the post-LLM dispatch
\* reaches the LocalCache, and the turn returns
ShareFinish(id, reply) ==
    LET text == sh[id].text
        r == LocalCacheOnEvent(cache, EventAfterLLMResponse, text, reply, now)
    IN
    /\ sh[id].pc = "llm"
    /\ cache' = r.cache
    /\ owner' = IF text # << >> /\ reply # << >> THEN Put(owner, text, id) ELSE owner
    /\ served' = [done |-> TRUE, chat |-> id, text |-> text, reply |-> reply,
                  cached |-> FALSE, by |-> id]
    /\ sh' = [sh EXCEPT ![id] = IdleShare]
    /\ UNCHANGED <<now, answered, probe>>

NextShare ==
    \/ Tick /\ UNCHANGED <<besideShare, shareVars>>
    \/ \E id \in ChatIDs, text \in ShareTexts :
          ShareSend(id, text) /\ UNCHANGED besideShare
    \/ \E id \in ChatIDs, reply \in ShareReplies :
          ShareFinish(id, reply) /\ UNCHANGED besideShare

InitShare == InitCache

SpecShare == InitShare /\ [][NextShare]_vars

\* a text message for chat id arrives and handleMessage starts on goroutine g
Arrive(g, id) ==
    /\ hnd[g].pc = "idle"
    /\ ~stopped
    /\ msgs < MaxMessages
    /\ msgs' = msgs + 1
    /\ hnd' = [hnd EXCEPT ![g] = [pc |-> "rlock", chat |-> id, session |-> 0]]
    /\ UNCHANGED <<sessions, sessionsMu, sess, hour, stopped, webSessions, webMade>>

\* getSession, the look under the read lock: RLock, read, RUnlock
LookUp(g) ==
    LET id == hnd[g].chat IN
    /\ hnd[g].pc = "rlock"
    /\ CanRLock(sessionsMu)
    /\ hnd' = [hnd EXCEPT ![g] =
                  IF id \in DOMAIN sessions
                  THEN [@ EXCEPT !.pc = "have", !.session = sessions[id]]
                  ELSE [@ EXCEPT !.pc = "wlock"]]
    /\ UNCHANGED <<sessions, sessionsMu, sess, hour, msgs, stopped, webSessions, webMade>>

\* getSession: a.sessionsMu.Lock() after the miss
TakeLock(g) ==
    /\ hnd[g].pc = "wlock"
    /\ CanLock(sessionsMu)
    /\ sessionsMu' = [sessionsMu EXCEPT !.writer = g]
    /\ hnd' = [hnd EXCEPT ![g].pc = "locked"]
    /\ UNCHANGED <<sessions, sess, hour, msgs, stopped, webSessions, webMade>>

\* getSession under the write lock, to its return: the second look, and on a
\* miss InitService (ok: it succeeds) and the insertion of the new session
CreateOrFind(g, ok) ==
    LET id == hnd[g].chat IN
    /\ hnd[g].pc = "locked"
    /\ sessionsMu' = [sessionsMu EXCEPT !.writer = 0]
    /\ UNCHANGED <<hour, msgs, stopped, webSessions, webMade>>
    /\ IF FoundUnderLock(sessions, id)
       THEN /\ hnd' = [hnd EXCEPT ![g] = [@ EXCEPT !.pc = "have", !.session = sessions[id]]]
            /\ UNCHANGED <<sessions, sess>>
       ELSE IF ~ok
       THEN /\ hnd' = [hnd EXCEPT ![g] = IdleHandler]
            /\ UNCHANGED <<sessions, sess>>
       ELSE /\ Len(sess) < MaxSessions
            /\ sess' = Append(sess, userSession(id, hour))
            /\ sessions' = Put(sessions, id, Len(sess) + 1)
            /\ hnd' = [hnd EXCEPT ![g] = [@ EXCEPT !.pc = "have", !.session = Len(sess) + 1]]

\* handleMessage: session.mu.Lock()
TurnBegin(g) ==
    LET n == hnd[g].session IN
    /\ hnd[g].pc = "have"
    /\ sess[n].mu = 0
    /\ sess' = [sess EXCEPT ![n].mu = g]
    /\ hnd' = [hnd EXCEPT ![g].pc = "stamp"]
    /\ UNCHANGED <<sessions, sessionsMu, hour, msgs, stopped, webSessions, webMade>>

\* handleMessage: session.lastUse = time.Now(), under the session's mu alone
TurnStamp(g) ==
    LET n == hnd[g].session IN
    /\ hnd[g].pc = "stamp"
    /\ sess' = [sess EXCEPT ![n].lastUse = hour]
    /\ hnd' = [hnd EXCEPT ![g].pc = "turn"]
    /\ UNCHANGED <<sessions, sessionsMu, hour, msgs, stopped, webSessions, webMade>>

\* handleMessage: SendWithContext has returned, the reply is sent, and the
\* deferred session.mu.Unlock() runs
TurnEnd(g) ==
    LET n == hnd[g].session IN
    /\ hnd[g].pc = "turn"
    /\ sess' = [sess EXCEPT ![n].mu = 0]
    /\ hnd' = [hnd EXCEPT ![g] = IdleHandler]
    /\ UNCHANGED <<sessions, sessionsMu, hour, msgs, stopped, webSessions, webMade>>

\* the sessions with the given numbers after cleanup() and removal from the map
Dropped(ss, ns) ==
    [n \in 1..Len(ss) |->
        IF n \in ns THEN [ss[n] EXCEPT !.cleaned = @ + 1, !.deleted = TRUE] ELSE ss[n]]

\* one round of cleanupLoop that finds something: under the write lock, every
\* session found expired is cleaned up and deleted. The loop reads lastUse
\* without the session's mu, so the read is unordered with the write of
\* TurnStamp: it finds the value before the write or the one after it, which
\* are the two orders of Sweep and TurnStamp here.
Sweep ==
    LET gone == {id \in DOMAIN sessions : Expired(sess[sessions[id]], hour)} IN
    /\ ~stopped
    /\ CanLock(sessionsMu)
    /\ gone # {}
    /\ sess' = Dropped(sess, {sessions[id] : id \in gone})
    /\ sessions' = [id \in DOMAIN sessions \ gone |-> sessions[id]]
    /\ UNCHANGED <<sessionsMu, hnd, hour, msgs, stopped, webSessions, webMade>>

\* the context is done: the bot stops taking messages, cleanupLoop returns,
\* and cleanupAllSessions cleans every session up and replaces the map
Shutdown ==
    /\ ~stopped
    /\ CanLock(sessionsMu)
    /\ stopped' = TRUE
    /\ sess' = Dropped(sess, {sessions[id] : id \in DOMAIN sessions})
    /\ sessions' = EmptyMap
    /\ UNCHANGED <<sessionsMu, hnd, hour, msgs, webSessions, webMade>>

\* a request for session id reaches handleChat or handleEvents of the webui
\* Server on goroutine g
WebRequest(g, id) ==
    /\ hnd[g].pc = "idle"
    /\ msgs < MaxMessages
    /\ msgs' = msgs + 1
    /\ hnd' = [hnd EXCEPT ![g] = [pc |-> "weblock", chat |-> id, session |-> 0]]
    /\ UNCHANGED <<sessions, sessionsMu, sess, hour, stopped, webSessions, webMade>>

\* Server.getSession, all of it under s.mu: the look, and on a miss
\* InitService (ok: it succeeds) and the insertion of the new Session
WebGetSession(g, ok) ==
    LET id == hnd[g].chat IN
    /\ hnd[g].pc = "weblock"
    /\ UNCHANGED <<sessions, sessionsMu, sess, hour, msgs, stopped>>
    /\ IF id \in DOMAIN webSessions
       THEN /\ hnd' = [hnd EXCEPT ![g] = [@ EXCEPT !.pc = "webhave", !.session = webSessions[id]]]
            /\ UNCHANGED <<webSessions, webMade>>
       ELSE IF ~ok
       THEN /\ hnd' = [hnd EXCEPT ![g] = IdleHandler]
            /\ UNCHANGED <<webSessions, webMade>>
       ELSE /\ webMade' = Append(webMade, id)
            /\ webSessions' = Put(webSessions, id, Len(webMade) + 1)
            /\ hnd' = [hnd EXCEPT ![g] = [@ EXCEPT !.pc = "webhave", !.session = Len(webMade) + 1]]

\* the webui handler has used its Session and returns
WebDone(g) ==
    /\ hnd[g].pc = "webhave"
    /\ hnd' = [hnd EXCEPT ![g] = IdleHandler]
    /\ UNCHANGED <<sessions, sessionsMu, sess, hour, msgs, stopped, webSessions, webMade>>

\* an hour passes
HourTick ==
    /\ hour < MaxHour
    /\ hour' = hour + 1
    /\ UNCHANGED <<sessions, sessionsMu, sess, hnd, msgs, stopped, webSessions, webMade>>

NextSessions ==
    \/ \E g \in Handlers, id \in ChatIDs : Arrive(g, id) /\ UNCHANGED besideSessions
    \/ \E g \in Handlers : LookUp(g) /\ UNCHANGED besideSessions
    \/ \E g \in Handlers : TakeLock(g) /\ UNCHANGED besideSessions
    \/ \E g \in Handlers, ok \in BOOLEAN : CreateOrFind(g, ok) /\ UNCHANGED besideSessions
    \/ \E g \in Handlers : TurnBegin(g) /\ UNCHANGED besideSessions
    \/ \E g \in Handlers : TurnStamp(g) /\ UNCHANGED besideSessions
    \/ \E g \in Handlers : TurnEnd(g) /\ UNCHANGED besideSessions
    \/ Sweep /\ UNCHANGED besideSessions
    \/ Shutdown /\ UNCHANGED besideSessions
    \/ \E g \in Handlers, id \in ChatIDs : WebRequest(g, id) /\ UNCHANGED besideSessions
    \/ \E g \in Handlers, ok \in BOOLEAN : WebGetSession(g, ok) /\ UNCHANGED besideSessions
    \/ \E g \in Handlers : WebDone(g) /\ UNCHANGED besideSessions
    \/ HourTick /\ UNCHANGED besideSessions

\* an Adapter that has just started, beside a Service without a chain
InitSessions == Init /\ mws = NilChain

SpecSessions == InitSessions /\ [][NextSessions]_vars

\* ------------------------------------- the session manager with its /clear
\* handleMessage with the lock of the Service: session.lastUse = time.Now(),
\* then SendWithContext takes s.mu
LockTurnStamp(g) ==
    LET n == hnd[g].session IN
    /\ TurnStamp(g)
    /\ svcMu[n] = 0
    /\ svcMu' = [svcMu EXCEPT ![n] = g]
    /\ UNCHANGED clr

\* SendWithContext returns and releases s.mu; the deferred
\* session.mu.Unlock() follows
LockTurnEnd(g) ==
    LET n == hnd[g].session IN
    /\ TurnEnd(g)
    /\ svcMu' = [svcMu EXCEPT ![n] = 0]
    /\ UNCHANGED clr

\* a /clear for chat id arrives
ClearArrive(id) ==
    /\ clr.pc = "idle"
    /\ ~stopped
    /\ clr.n < MaxClears
    /\ clr' = [pc |-> "lock", chat |-> id, session |-> 0, n |-> clr.n + 1]
    /\ UNCHANGED <<sessVars, svcMu>>

\* /clear: a.sessionsMu.Lock()
ClearLock ==
    /\ clr.pc = "lock"
    /\ CanLock(sessionsMu)
    /\ sessionsMu' = [sessionsMu EXCEPT !.writer = ClearHandler]
    /\ clr' = [clr EXCEPT !.pc = "locked"]
    /\ UNCHANGED <<sessions, sess, hnd, hour, msgs, stopped, webSessions, webMade, svcMu>>

\* /clear under sessionsMu: the look into the map; session.mu.Lock() when the
\* session exists, else a.sessionsMu.Unlock() and the handler is done
ClearTake ==
    LET id == clr.chat IN
    /\ clr.pc = "locked"
    /\ UNCHANGED <<sessions, hnd, hour, msgs, stopped, webSessions, webMade, svcMu>>
    /\ IF id \in DOMAIN sessions
       THEN /\ sess[sessions[id]].mu = 0
            /\ sess' = [sess EXCEPT ![sessions[id]].mu = ClearHandler]
            /\ clr' = [clr EXCEPT !.pc = "clearing", !.session = sessions[id]]
            /\ UNCHANGED sessionsMu
       ELSE /\ sessionsMu' = [sessionsMu EXCEPT !.writer = 0]
            /\ clr' = [clr EXCEPT !.pc = "idle", !.session = 0]
            /\ UNCHANGED sess

\* the handler returns without a.sessionsMu.Unlock()
ClearRunKeepsLock ==
    LET n == clr.session IN
    /\ clr.pc = "clearing"
    /\ svcMu[n] = 0
    /\ sess' = [sess EXCEPT ![n].mu = 0]
    /\ clr' = [clr EXCEPT !.pc = "idle", !.session = 0]
    /\ UNCHANGED <<sessions, sessionsMu, hnd, hour, msgs, stopped, webSessions, webMade, svcMu>>

\* /clear: session.service.Clear(), which takes and releases s.mu, then
\* session.mu.Unlock() and a.sessionsMu.Unlock()
ClearRun ==
    LET n == clr.session IN
    /\ clr.pc = "clearing"
    /\ svcMu[n] = 0
    /\ sess' = [sess EXCEPT ![n].mu = 0]
    /\ sessionsMu' = [sessionsMu EXCEPT !.writer = 0]
    /\ clr' = [clr EXCEPT !.pc = "idle", !.session = 0]
    /\ UNCHANGED <<sessions, hnd, hour, msgs, stopped, webSessions, webMade, svcMu>>

NextSessionLocks ==
    \/ \E g \in Handlers, id \in ChatIDs :
          Arrive(g, id) /\ UNCHANGED <<besideSessionLocks, clearVars>>
    \/ \E g \in Handlers : LookUp(g) /\ UNCHANGED <<besideSessionLocks, clearVars>>
    \/ \E g \in Handlers : TakeLock(g) /\ UNCHANGED <<besideSessionLocks, clearVars>>
    \/ \E g \in Handlers, ok \in BOOLEAN :
          CreateOrFind(g, ok) /\ UNCHANGED <<besideSessionLocks, clearVars>>
    \/ \E g \in Handlers : TurnBegin(g) /\ UNCHANGED <<besideSessionLocks, clearVars>>
    \/ \E g \in Handlers : LockTurnStamp(g) /\ UNCHANGED besideSessionLocks
    \/ \E g \in Handlers : LockTurnEnd(g) /\ UNCHANGED besideSessionLocks
    \/ \E id \in ChatIDs : ClearArrive(id) /\ UNCHANGED besideSessionLocks
    \/ ClearLock /\ UNCHANGED besideSessionLocks
    \/ ClearTake /\ UNCHANGED besideSessionLocks
    \/ ClearRun /\ UNCHANGED besideSessionLocks
    \/ Sweep /\ UNCHANGED <<besideSessionLocks, clearVars>>
    \/ Shutdown /\ UNCHANGED <<besideSessionLocks, clearVars>>
    \/ HourTick /\ UNCHANGED <<besideSessionLocks, clearVars>>

InitSessionLocks == Init /\ mws = NilChain

SpecSessionLocks == InitSessionLocks /\ [][NextSessionLocks]_vars

\* every goroutine that can take its next step takes it in the end: the
\* handlers and the /clear handler run on goroutines of their own, a blocked
\* Lock wakes when the mutex is free, and each turn terminates (LockTurnEnd)
FairSessionLocks ==
    /\ \A g \in Handlers :
          /\ WF_vars(LookUp(g) /\ UNCHANGED <<besideSessionLocks, clearVars>>)
          /\ WF_vars(TakeLock(g) /\ UNCHANGED <<besideSessionLocks, clearVars>>)
          /\ WF_vars((\E ok \in BOOLEAN : CreateOrFind(g, ok))
                       /\ UNCHANGED <<besideSessionLocks, clearVars>>)
          /\ WF_vars(TurnBegin(g) /\ UNCHANGED <<besideSessionLocks, clearVars>>)
          /\ WF_vars(LockTurnStamp(g) /\ UNCHANGED besideSessionLocks)
          /\ WF_vars(LockTurnEnd(g) /\ UNCHANGED besideSessionLocks)
    /\ WF_vars(ClearLock /\ UNCHANGED besideSessionLocks)
    /\ WF_vars(ClearTake /\ UNCHANGED besideSessionLocks)
    /\ WF_vars(ClearRun /\ UNCHANGED besideSessionLocks)

\* the same without the clock: no session expires, no sweep finds work
NextSessionLocksFair ==
    \/ \E g \in Handlers, id \in ChatIDs :
          Arrive(g, id) /\ UNCHANGED <<besideSessionLocks, clearVars>>
    \/ \E g \in Handlers : LookUp(g) /\ UNCHANGED <<besideSessionLocks, clearVars>>
    \/ \E g \in Handlers : TakeLock(g) /\ UNCHANGED <<besideSessionLocks, clearVars>>
    \/ \E g \in Handlers, ok \in BOOLEAN :
          CreateOrFind(g, ok) /\ UNCHANGED <<besideSessionLocks, clearVars>>
    \/ \E g \in Handlers : TurnBegin(g) /\ UNCHANGED <<besideSessionLocks, clearVars>>
    \/ \E g \in Handlers : LockTurnStamp(g) /\ UNCHANGED besideSessionLocks
    \/ \E g \in Handlers : LockTurnEnd(g) /\ UNCHANGED besideSessionLocks
    \/ \E id \in ChatIDs : ClearArrive(id) /\ UNCHANGED besideSessionLocks
    \/ ClearLock /\ UNCHANGED besideSessionLocks
    \/ ClearTake /\ UNCHANGED besideSessionLocks
    \/ ClearRun /\ UNCHANGED besideSessionLocks
    \/ Shutdown /\ UNCHANGED <<besideSessionLocks, clearVars>>

SpecSessionLocksFair ==
    InitSessionLocks /\ [][NextSessionLocksFair]_vars /\ FairSessionLocks

\* Store.Index(session, text); the result of the last Query is let go
MemIndex(session, text) ==
    /\ Len(store["s"]) + Len(store["t"]) < MaxDocs
    /\ store' = [store EXCEPT ![session] = Index(@, text)]
    /\ asked' = NoQuery

\* Store.Query(session, query, k) returns out
MemQuery(session, query, k, out) ==
    /\ out \in Query(store[session], query, k)
    /\ asked' = [done |-> TRUE, docs |-> store[session], query |-> query, k |-> k, out |-> out]
    /\ UNCHANGED store

NextMemory ==
    \/ \E session \in MemSessions, text \in MemTexts :
          MemIndex(session, text) /\ UNCHANGED besideMemory
    \/ \E session \in MemSessions, query \in QueryTexts, k \in (0 - 1)..MaxK :
          \E out \in Query(store[session], query, k) :
              MemQuery(session, query, k, out) /\ UNCHANGED besideMemory

\* a Store of its own, beside a Service without a chain
InitMemory == Init /\ mws = NilChain

SpecMemory == InitMemory /\ [][NextMemory]_vars

\* a callback of the Session runs: it offers text to the channel and returns
Emit(text) ==
    LET r == TrySend(eventCh, Chunk(emitted + 1, text)) IN
    /\ emitted < MaxChunks
    /\ emitted' = emitted + 1
    /\ eventCh' = r.ch
    /\ dropped' = IF r.sent THEN dropped ELSE dropped \cup {emitted + 1}
    /\ UNCHANGED delivered

\* streamCb(msg), called by the Service of the Session
StreamCb == Emit(<<"m">>)

\* statusCb(msg), called by the Service of the Session
StatusCb == emitted < MaxStatusAt /\ Emit(<<"[STATUS] ", "m">>)

\* handleEvents: case msg := <-sess.eventCh, written to the response
Receive(c) ==
    /\ eventCh # << >>
    /\ Len(delivered[1]) + Len(delivered[2]) < MaxTakes
    /\ delivered' = [delivered EXCEPT ![c] = Append(@, Head(eventCh))]
    /\ eventCh' = Tail(eventCh)
    /\ UNCHANGED <<emitted, dropped>>

NextEvents ==
    \/ StreamCb /\ UNCHANGED besideEvents
    \/ StatusCb /\ UNCHANGED besideEvents
    \/ \E c \in Consumers : Receive(c) /\ UNCHANGED besideEvents

\* a webui Session that was just created, beside a Service without a chain
InitEvents == Init /\ mws = NilChain

SpecEvents == InitEvents /\ [][NextEvents]_vars

\* SendWithContext hands a before_llm_request event with empty params to
\* Dispatch, which takes its snapshot of the chain
InjectBegin(ics, mid, budget) ==
    /\ inj.pc \in {"idle", "done"}
    /\ inj' = [pc |-> "run", mws |-> ics, pos |-> 1,
               e |-> Event(EventBeforeLLMRequest, <<"u">>, << >>, EmptyParams),
               mid |-> mid, budget |-> budget, log |-> << >>]

\* Dispatch: the next interceptor is skipped (load is what its ShouldLoad
\* returns) or called, and its decision is applied to the event
InjectStep(load) ==
    LET kind == inj.mws[inj.pos]
        runs == kind \in FlagLoaded => load
        dec == InjectorOnEvent(kind, inj.e, inj.mid, inj.budget)
        e1 == IF runs THEN applyDecisionToEvent(inj.e, dec) ELSE inj.e
    IN
    /\ inj.pc = "run"
    /\ inj.pos <= Len(inj.mws)
    /\ kind \notin FlagLoaded => load
    /\ inj' = [inj EXCEPT
                  !.e = e1,
                  !.pos = @ + 1,
                  !.log = Append(@, [kind |-> kind, ran |-> runs,
                                     before |-> inj.e.Params, after |-> e1.Params])]

\* Dispatch returns and SendWithContext takes llmParams = e.Params
InjectEnd ==
    /\ inj.pc = "run"
    /\ inj.pos > Len(inj.mws)
    /\ inj' = [inj EXCEPT !.pc = "done"]

NextInject ==
    \/ \E ics \in InjectorChains, mid \in BOOLEAN, budget \in Budgets :
          InjectBegin(ics, mid, budget) /\ UNCHANGED besideInject
    \/ \E load \in BOOLEAN : InjectStep(load) /\ UNCHANGED besideInject
    \/ InjectEnd /\ UNCHANGED besideInject

\* no dispatch yet, beside a Service without a chain
InitInject == Init /\ mws = NilChain

SpecInject == InitInject /\ [][NextInject]_vars

\* SendWithContext from behind the pre-LLM dispatch up to the agent loop
RegisterTools(mwTools, list, hasMgr) ==
    tl' = [mw |-> mwTools, list |-> list, hasMgr |-> hasMgr,
           sent |-> RequestTools(mwTools, list, hasMgr), n |-> 1]

NextTools ==
    \E mwTools \in MwToolLists, list \in SkillLists, hasMgr \in BOOLEAN :
        RegisterTools(mwTools, list, hasMgr) /\ UNCHANGED besideTools

\* no request yet, beside a Service without a chain
InitTools == Init /\ mws = NilChain

SpecTools == InitTools /\ [][NextTools]_vars

\* Dispatch: c.mu.RLock()
DispatchRLock(g) ==
    /\ gor[g].pc = "idle"
    /\ RWCanRLock(chainMu)
    /\ chainMu' = RLock(chainMu, g)
    /\ gor' = [gor EXCEPT ![g] = [IdleGoroutine EXCEPT !.pc = "snapshot"]]
    /\ UNCHANGED chain

\* Dispatch: mws := copy of c.mws; c.mu.RUnlock(); at is the list as it was then
DispatchSnapshot(g) ==
    /\ gor[g].pc = "snapshot"
    /\ chainMu' = SnapshotUnlock(chainMu, g)
    /\ gor' = [gor EXCEPT ![g] = [@ EXCEPT !.pc = "run", !.mws = chain, !.at = chain,
                                            !.pos = 1]]
    /\ UNCHANGED chain

\* the interceptor at pos is called and returns; cancel ends the loop
OnEventPlain(g, cancel) ==
    LET d == gor[g] IN
    /\ d.pc = "run"
    /\ d.pos <= Len(d.mws)
    /\ gor' = [gor EXCEPT ![g] = [d EXCEPT !.visited = Append(@, d.mws[d.pos].id),
                                            !.pos = IF cancel THEN Len(d.mws) + 1 ELSE @ + 1]]
    /\ UNCHANGED <<chain, chainMu>>

\* Use is called: c.mu.Lock() begins. Either by a goroutine of its own, or by
\* the interceptor at pos from its OnEvent
UseCall(g) ==
    LET d == gor[g]
        using == {h \in Goroutines : gor[h].pc \in {"use_wait", "use_locked"}}
    IN
    /\ d.pc = "idle" \/ (d.pc = "run" /\ d.pos <= Len(d.mws))
    /\ Len(chain) + Cardinality(using) < MaxUse
    /\ chainMu' = [chainMu EXCEPT !.pending = @ \cup {g}]
    /\ gor' = [gor EXCEPT ![g] =
                 IF d.pc = "idle" THEN [IdleGoroutine EXCEPT !.pc = "use_wait"]
                 ELSE [d EXCEPT !.pc = "use_wait", !.nested = TRUE,
                                !.visited = Append(@, d.mws[d.pos].id)]]
    /\ UNCHANGED chain

\* Use: c.mu.Lock() returns
UseLock(g) ==
    /\ gor[g].pc = "use_wait"
    /\ RWCanLock(chainMu)
    /\ chainMu' = [chainMu EXCEPT !.writer = g, !.pending = @ \ {g}]
    /\ gor' = [gor EXCEPT ![g].pc = "use_locked"]
    /\ UNCHANGED chain

\* Use: append, sortLocked, and the deferred c.mu.Unlock(); an interceptor
\* that called it returns from OnEvent
UseReturn(g, priority) ==
    LET d == gor[g] IN
    /\ d.pc = "use_locked"
    /\ chain' = sortLocked(Append(chain, Interceptor(Len(chain) + 1, priority, FALSE)))
    /\ chainMu' = [chainMu EXCEPT !.writer = 0]
    /\ gor' = [gor EXCEPT ![g] =
                 IF d.nested THEN [d EXCEPT !.pc = "run", !.nested = FALSE, !.pos = @ + 1]
                 ELSE [d EXCEPT !.pc = "idle"]]

\* List is called, by a goroutine of its own or by the interceptor at pos
ListCall(g) ==
    LET d == gor[g] IN
    /\ d.pc = "idle" \/ (d.pc = "run" /\ d.pos <= Len(d.mws))
    /\ gor' = [gor EXCEPT ![g] =
                 IF d.pc = "idle" THEN [IdleGoroutine EXCEPT !.pc = "list_wait"]
                 ELSE [d EXCEPT !.pc = "list_wait", !.nested = TRUE,
                                !.visited = Append(@, d.mws[d.pos].id)]]
    /\ UNCHANGED <<chain, chainMu>>

\* List: c.mu.RLock() returns
ListRLock(g) ==
    /\ gor[g].pc = "list_wait"
    /\ RWCanRLock(chainMu)
    /\ chainMu' = RLock(chainMu, g)
    /\ gor' = [gor EXCEPT ![g].pc = "listed"]
    /\ UNCHANGED chain

\* List: the copy and the deferred c.mu.RUnlock()
ListReturn(g) ==
    LET d == gor[g] IN
    /\ d.pc = "listed"
    /\ chainMu' = RUnlock(chainMu, g)
    /\ gor' = [gor EXCEPT ![g] =
                 IF d.nested THEN [d EXCEPT !.pc = "run", !.nested = FALSE, !.pos = @ + 1]
                 ELSE [d EXCEPT !.pc = "idle"]]
    /\ UNCHANGED chain

\* Dispatch returns behind its loop
DispatchReturn(g) ==
    LET d == gor[g] IN
    /\ d.pc = "run"
    /\ d.pos > Len(d.mws)
    /\ gor' = [gor EXCEPT ![g] = [d EXCEPT !.pc = "idle", !.returned = TRUE]]
    /\ UNCHANGED <<chain, chainMu>>

\* the steps that begin no call: a goroutine inside the chain goes on
ChainLockProgress ==
    \E g \in Goroutines :
        \/ DispatchSnapshot(g)
        \/ \E cancel \in BOOLEAN : OnEventPlain(g, cancel)
        \/ UseLock(g)
        \/ \E priority \in Priorities : UseReturn(g, priority)
        \/ ListRLock(g)
        \/ ListReturn(g)
        \/ DispatchReturn(g)

NextChainLock ==
    \/ \E g \in Goroutines : DispatchRLock(g) /\ UNCHANGED besideChainLock
    \/ \E g \in Goroutines : DispatchSnapshot(g) /\ UNCHANGED besideChainLock
    \/ \E g \in Goroutines, cancel \in BOOLEAN :
          OnEventPlain(g, cancel) /\ UNCHANGED besideChainLock
    \/ \E g \in Goroutines : UseCall(g) /\ UNCHANGED besideChainLock
    \/ \E g \in Goroutines : UseLock(g) /\ UNCHANGED besideChainLock
    \/ \E g \in Goroutines, priority \in Priorities :
          UseReturn(g, priority) /\ UNCHANGED besideChainLock
    \/ \E g \in Goroutines : ListCall(g) /\ UNCHANGED besideChainLock
    \/ \E g \in Goroutines : ListRLock(g) /\ UNCHANGED besideChainLock
    \/ \E g \in Goroutines : ListReturn(g) /\ UNCHANGED besideChainLock
    \/ \E g \in Goroutines : DispatchReturn(g) /\ UNCHANGED besideChainLock

\* an empty chain with its lock free, beside a Service that has none
InitChainLock == Init /\ mws = NilChain

SpecChainLock == InitChainLock /\ [][NextChainLock]_vars

\* an executor's OnEvent is called with an event whose context holds raw;
\* starts[n] says whether the process of a timer.set at call n starts
ExecStep(kind, name, raw, starts) ==
    LET r == ExecOnEvent(kind, name, raw, starts, exe.alarms, exe.timers) IN
    /\ \A n \in 1..MaxToolCalls :
          (n > Len(raw) \/ raw[n].Tool # "timer.set" \/ kind # "alarm_exec") => starts[n]
    /\ name # EventAfterLLMResponse => Len(raw) <= 1
    /\ Len(r.alarms) <= MaxAlarms
    /\ r.timers <= MaxTimers
    /\ exe' = [kind |-> kind, name |-> name, raw |-> raw, dec |-> r.outputs,
               ran |-> r.ran, alarms |-> r.alarms, timers |-> r.timers, n |-> 1]

NextExec ==
    \E kind \in Executors, name \in {EventAfterLLMResponse, EventBeforeLLMRequest},
       raw \in ExecCallLists, starts \in [1..MaxToolCalls -> BOOLEAN] :
        ExecStep(kind, name, raw, starts) /\ UNCHANGED besideExec

\* no event yet, beside a Service without a chain
InitExec == Init /\ mws = NilChain

SpecExec == InitExec /\ [][NextExec]_vars

\* the goroutines of a fan-out, or of two sessions, inside runAlarmTool
NextAlarm ==
    \/ \E g \in Goroutines, tc \in AlarmCalls : AlarmBegin(g, tc) /\ UNCHANGED besideAlarm
    \/ \E g \in Goroutines : AlarmRead(g) /\ UNCHANGED besideAlarm
    \/ \E g \in Goroutines : AlarmOpen(g) /\ UNCHANGED besideAlarm
    \/ \E g \in Goroutines : AlarmWrite(g) /\ UNCHANGED besideAlarm

InitAlarm == Init /\ mws = NilChain

SpecAlarm == InitAlarm /\ [][NextAlarm]_vars

TypeOK ==
    /\ mu \in 0..NumClients
    /\ calls \in 0..MaxCalls
    /\ \A c \in Clients : call[c].pc \in {"idle", "loop", "tools", "finish"}

\* ------------------------------------------------------------ observations
IsPrefix(a, b) == Len(a) <= Len(b) /\ SubSeq(b, 1, Len(a)) = a

\* the history the returned call l started from, as the call left it: pruned,
\* unless the call returned "empty input" before pruning
Base(l) == IF l.err = <<"empty input">> THEN l.k.histEntry ELSE Prune(l.k.histEntry)

\* the messages the returned call appended to history
Appended == SubSeq(history, Len(Base(last)) + 1, Len(history))

\* the messages of the turn in a call's currentHistory: the user message on
LoopMessages(k) ==
    SubSeq(k.currentHistory, Len(Prune(k.histEntry)) + 1, Len(k.currentHistory))

\* what the returned call l appends when it runs alone
TurnMessages(l) ==
    IF l.err # << >> \/ l.k.isHeartbeat THEN << >>
    ELSE IF l.k.canceled # << >>
    THEN <<Message(RoleUser, l.k.input, << >>, "", ""),
           Message(RoleAssistant, l.k.updated, << >>, "", "")>>
    ELSE LoopMessages(l.k)

InTurn(c) == call[c].pc # "idle"

ReturnedOK == last.done /\ last.err = << >>

\* the returned call went through the agent loop
RanLoop(l) == l.k.currentHistory # << >>

\* ------------------------------------------------------------------- claims

\* C1: calls on one Service are serialized by its lock: at most one call is
\* inside its turn, the history stays what the running turn saw at its start
\* until that turn commits, and what a call leaves behind is the history it
\* started from followed by exactly its own messages.
C1_TurnsSerialized ==
    /\ \A c, d \in Clients : InTurn(c) /\ InTurn(d) => c = d
    /\ \A c \in Clients : InTurn(c) => mu = c /\ history = Prune(call[c].histEntry)
    /\ last.done => history = Base(last) \o TurnMessages(last)

\* a call is inside its turn, holding the lock, while another client still
\* has a call to make
C1_Witness ==
    \E c, d \in Clients :
        /\ c # d
        /\ call[c].pc = "tools" /\ mu = c
        /\ call[d].pc = "idle" /\ calls < MaxCalls

\* one user message, then groups of one assistant message and its tool
\* messages, each tool message with the id of an earlier assistant's call
Topology(m) ==
    /\ Len(m) >= 2
    /\ m[1].Role = RoleUser
    /\ m[2].Role = RoleAssistant
    /\ \A n \in 2..Len(m) :
          /\ m[n].Role \in {RoleAssistant, RoleTool}
          /\ m[n].Role = RoleTool =>
                \E p \in 2..(n - 1) :
                    /\ m[p].Role = RoleAssistant
                    /\ \E q \in 1..Len(m[p].ToolCalls) :
                          m[p].ToolCalls[q].ID = m[n].ToolCallID

\* C2 as stated: after every send that completes normally the appended
\* messages have the topology user, (assistant, tool*)+. A heartbeat send
\* completes normally and appends nothing.
C2_AsStated == ReturnedOK => Topology(Appended)

\* C2 amended: after every send that completes normally and is not a
\* heartbeat, the appended messages are one user message, then one or more
\* groups of one assistant message and zero or more tool messages, and every
\* tool message carries the id of a tool call of a preceding assistant
\* message of the turn.
C2_TurnTopology == ReturnedOK /\ ~last.k.isHeartbeat => Topology(Appended)

\* a committed turn with two tool rounds, one of them a fan-out
C2_Witness ==
    /\ ReturnedOK /\ ~last.k.isHeartbeat
    /\ \E n \in 1..Len(Appended) : Len(Appended[n].ToolCalls) = 2
    /\ Cardinality({n \in 1..Len(Appended) : Appended[n].Role = RoleAssistant}) >= 3
    /\ last.k.histEntry # << >>

\* in the messages m every assistant message with tool calls is followed by
\* one tool message per call, in the order of the calls, with the call's id
\* and name
ResultsInCallOrder(m) ==
    \A p \in 1..Len(m) :
        m[p].Role = RoleAssistant =>
            /\ p + Len(m[p].ToolCalls) <= Len(m)
            /\ \A q \in 1..Len(m[p].ToolCalls) :
                  /\ m[p + q].Role = RoleTool
                  /\ m[p + q].ToolCallID = m[p].ToolCalls[q].ID
                  /\ m[p + q].ToolName = m[p].ToolCalls[q].Name
            /\ p + Len(m[p].ToolCalls) < Len(m) =>
                  m[p + Len(m[p].ToolCalls) + 1].Role = RoleAssistant

\* C3: whatever the order in which the tool goroutines of a round complete,
\* when the loop goes on (to the next adapter call or to the commit) no
\* goroutine is still running and the round's tool messages stand in the order
\* of the model's calls, one per call, with that call's id and tool name.
C3_FanOutInOrder ==
    \A c \in Clients :
        call[c].pc \in {"loop", "finish"} =>
            /\ call[c].pending = {}
            /\ ResultsInCallOrder(LoopMessages(call[c]))

\* the second call of a fan-out completed first and the loop has gone on
C3_Witness ==
    \E c \in Clients :
        /\ call[c].pc = "loop"
        /\ call[c].doneOrder = <<2, 1>>
        /\ call[c].adapterCalls >= 1

AssistantAt(m) == {n \in 1..Len(m) : m[n].Role = RoleAssistant}

\* every reply of the turn so far asked for tools
AllToolReplies(k) ==
    \A n \in AssistantAt(LoopMessages(k)) : LoopMessages(k)[n].ToolCalls # << >>

\* the turn's last message is a reply without tool calls
EndsToolFree(k) ==
    LET m == LoopMessages(k)
    IN m # << >> /\ m[Len(m)].Role = RoleAssistant /\ m[Len(m)].ToolCalls = << >>

\* the loop of call k has ended and the adapter, the tools and the final
\* reply are those of a loop that stopped at the first tool-free reply
StoppedAtToolFree(k) ==
    LET m == LoopMessages(k)
    IN /\ k.adapterCalls = Cardinality(AssistantAt(m))
       /\ k.toolRuns = Cardinality({n \in 1..Len(m) : m[n].Role = RoleTool})
       /\ \A n \in AssistantAt(m) :
             m[n].ToolCalls = << >> => n = Len(m) /\ k.finalResponse = m[n].Content

\* user, assistant with tool calls, one tool message per call, final
\* assistant, and the final reply of the loop is the second reply's text
OneToolRound(m, k) ==
    /\ Len(m) >= 4
    /\ Len(m) = 3 + Len(m[2].ToolCalls)
    /\ m[1] = Message(RoleUser, k.input, << >>, "", "")
    /\ m[2].Role = RoleAssistant /\ m[2].ToolCalls # << >>
    /\ \A n \in 3..(Len(m) - 1) : m[n].Role = RoleTool
    /\ m[Len(m)].Role = RoleAssistant /\ m[Len(m)].ToolCalls = << >>
    /\ k.finalResponse = m[Len(m)].Content

C4_LoopStops ==
    /\ \A c \in Clients :
          /\ call[c].pc \in {"loop", "tools"} => AllToolReplies(call[c])
          /\ call[c].pc = "finish" => StoppedAtToolFree(call[c])
    /\ ReturnedOK /\ RanLoop(last) => StoppedAtToolFree(last.k)

\* C4 as stated: the loop stops at the first tool-free reply, and a turn with
\* one tool round commits user, assistant-with-tool-call, tool, assistant-final.
\* A heartbeat turn with one tool round commits nothing.
C4_AsStated ==
    /\ C4_LoopStops
    /\ ReturnedOK /\ RanLoop(last) /\ EndsToolFree(last.k) /\ last.k.adapterCalls = 2
          => OneToolRound(Appended, last.k)

\* C4 amended: the agent loop stops at the first LLM reply that carries no
\* tool calls: no further adapter call and no tool execution happens in that
\* send, the final reply of the loop is that reply's text, and for a turn
\* that is not a heartbeat and has one tool round the committed history is
\* user, assistant-with-tool-call, tool, assistant-final with the final reply
\* equal to the text of the second LLM call.
C4_StopsAtToolFreeReply ==
    /\ C4_LoopStops
    /\ ReturnedOK /\ RanLoop(last) /\ EndsToolFree(last.k) /\ last.k.adapterCalls = 2
          /\ ~last.k.isHeartbeat
          => OneToolRound(Appended, last.k)

\* a committed turn of one tool round and a final reply, on an earlier history
C4_Witness ==
    /\ ReturnedOK /\ RanLoop(last) /\ EndsToolFree(last.k)
    /\ last.k.adapterCalls = 2 /\ last.k.toolRuns = 1
    /\ ~last.k.isHeartbeat
    /\ last.k.histEntry # << >>

\* send returned without error from a loop in which every reply asked for tools
CapReached == ReturnedOK /\ RanLoop(last) /\ AllToolReplies(last.k)

\* C5 as stated: a send whose every reply carries tool calls makes exactly
\* maxIterations + 1 adapter calls, and no send makes more.
C5_AsStated ==
    /\ CapReached => last.k.adapterCalls = maxIterations + 1
    /\ \A c \in Clients : call[c].adapterCalls <= maxIterations + 1

\* C5 amended: the tool iteration cap is honoured: when the model returns
\* tool calls in every reply, one send makes exactly maxIterations = 10 calls
\* to the LLM adapter and then terminates, and no send ever makes more than
\* 10 adapter calls.
C5_IterationCap ==
    /\ CapReached => last.k.adapterCalls = maxIterations
    /\ \A c \in Clients : call[c].adapterCalls <= maxIterations
    /\ last.k.adapterCalls <= maxIterations

C5_Witness == CapReached /\ last.k.toolRuns >= maxIterations

\* C6 as stated: at the cap send succeeds and the final reply is the text of
\* the last assistant message of the turn. The code leaves finalResponse
\* empty when no reply was tool-free.
C6_AsStated ==
    CapReached =>
        LET m == LoopMessages(last.k)
            n == CHOOSE x \in AssistantAt(m) : \A y \in AssistantAt(m) : y <= x
        IN last.err = << >> /\ last.k.finalResponse = m[n].Content

AdapterErrors == {r.err : r \in ErrorReplies}

\* C7: when the adapter returns an error (the context's cancellation among
\* them), send returns that error and no reply, history is the pre-turn
\* history (pruned) without any message of the turn, and memory is as before.
C7_ErrorLeavesNoTrace ==
    last.done /\ last.err \in AdapterErrors =>
        /\ last.reply = << >>
        /\ history = Prune(last.k.histEntry)
        /\ mem = last.k.memEntry

\* the adapter failed after a tool round, on a history of earlier turns
C7_Witness ==
    /\ last.done /\ last.err \in AdapterErrors
    /\ last.k.adapterCalls >= 2 /\ last.k.toolRuns >= 1
    /\ ~last.k.isHeartbeat
    /\ last.k.histEntry # << >> /\ last.k.memEntry # << >>

\* the pre-LLM dispatch was cancelled by a decision that carries a replace_text
CanceledWith(l) == l.k.canceled # << >> /\ l.k.canceled[1].ReplaceText # << >>

ReplaceTextOf(l) == l.k.canceled[1].ReplaceText[1]

UserAndReply(l, text) ==
    <<Message(RoleUser, l.k.input, << >>, "", ""),
      Message(RoleAssistant, text, << >>, "", "")>>

\* C8 as stated (non-empty read as not blank): a cancel with a replace_text
\* returns the text, calls no adapter, appends {user, input}, {assistant,
\* replace_text} and streams the replacement. A heartbeat turn appends and
\* streams nothing.
C8_AsStated ==
    last.done /\ CanceledWith(last) /\ TrimSpace(ReplaceTextOf(last)) # << >> =>
        /\ last.err = << >>
        /\ last.reply = TrimSpace(ReplaceTextOf(last))
        /\ last.k.adapterCalls = 0
        /\ history = Base(last) \o UserAndReply(last, TrimSpace(ReplaceTextOf(last)))
        /\ last.k.stream = <<Append(TrimSpace(ReplaceTextOf(last)), "\n")>>

\* C8 amended: when a pre-LLM interceptor cancels with a replace_text that is
\* not blank, send returns that text (trimmed) as a successful reply and the
\* LLM adapter is never called in that turn; unless the turn is a heartbeat,
\* history gains exactly {user, input} followed by {assistant, replace_text}
\* and the replacement is emitted through the stream callback; a heartbeat
\* turn appends and emits nothing.
C8_CancelWithText ==
    last.done /\ CanceledWith(last) /\ TrimSpace(ReplaceTextOf(last)) # << >> =>
        LET text == TrimSpace(ReplaceTextOf(last)) IN
        /\ last.err = << >>
        /\ last.reply = text
        /\ last.k.adapterCalls = 0 /\ last.k.toolRuns = 0
        /\ IF last.k.isHeartbeat
           THEN history = Base(last) /\ last.k.stream = << >>
           ELSE /\ history = Base(last) \o UserAndReply(last, text)
                /\ last.k.stream = <<Append(text, "\n")>>

C8_Witness ==
    /\ last.done /\ CanceledWith(last) /\ TrimSpace(ReplaceTextOf(last)) # << >>
    /\ ~last.k.isHeartbeat
    /\ last.k.histEntry # << >>

\* C9 as stated: a cancel without replace_text makes send return the reason
\* (or the generic error) and no reply, without adapter call or change of
\* history. The code starts from the trimmed input as the current text, so
\* the cancel returns the input (or an earlier interceptor's replacement) as
\* the reply.
C9_AsStated ==
    last.done /\ last.k.canceled # << >> /\ last.k.canceled[1].ReplaceText = << >> =>
        /\ last.reply = << >>
        /\ last.err = IF TrimSpace(last.k.canceled[1].Reason) = << >>
                      THEN <<"request canceled by middleware">>
                      ELSE last.k.canceled[1].Reason
        /\ last.k.adapterCalls = 0
        /\ history = Base(last)

\* C10: when an interceptor returns an error during the pre-LLM dispatch, send
\* returns that error and no reply, the adapter is not called, no tool runs,
\* and history (pruned) and memory hold no message of the turn.
C10_PreDispatchError ==
    last.done /\ last.k.dispatchErr # << >> =>
        /\ last.err = last.k.dispatchErr
        /\ last.reply = << >>
        /\ last.k.adapterCalls = 0 /\ last.k.toolRuns = 0
        /\ history = Prune(last.k.histEntry)
        /\ mem = last.k.memEntry

\* the dispatch failed in a turn that follows a committed one
C10_Witness ==
    /\ last.done /\ last.k.dispatchErr # << >>
    /\ last.k.histEntry # << >> /\ last.k.memEntry # << >>

\* the returned call made the post-LLM dispatch
PostRan == ReturnedOK /\ RanLoop(last) /\ last.k.post # << >>

PostOf(l) == l.k.post[1]

\* the text after the replace_text rewrites of the recorded results, in
\* dispatch order: the last rewrite wins, each text trimmed
Rewritten(pre, results) ==
    LET rw == {n \in 1..Len(results) : results[n].ReplaceText # << >>}
    IN IF rw = {} THEN TrimSpace(pre)
       ELSE TrimSpace(results[CHOOSE n \in rw : \A m \in rw : m <= n].ReplaceText[1])

\* the dispatch ended with a cancel
EndsInCancel(results) == results # << >> /\ results[Len(results)].Cancel

\* the decision supplies no replace_text, or a blank one
NoText(dec) == dec.ReplaceText = << >> \/ TrimSpace(dec.ReplaceText[1]) = << >>

\* C11 as stated (retained read up to surrounding white space, a blank
\* replace_text read as none): on a dispatch
\* error the pre-dispatch reply is returned, on a cancel without replace_text
\* the pre-dispatch reply is retained, otherwise the rewritten reply is
\* returned. A rewrite of an earlier interceptor survives a later cancel that
\* has no replace_text.
C11_AsStated ==
    PostRan =>
        LET pre == last.k.finalResponse
            d == PostOf(last)
        IN IF d.err # << >> THEN last.reply = pre
           ELSE IF EndsInCancel(d.results) /\ NoText(d.results[Len(d.results)])
           THEN TrimSpace(last.reply) = TrimSpace(pre)
           ELSE last.reply = Rewritten(pre, d.results)

\* C11 amended: post-LLM dispatch is best-effort: if the dispatch returns an
\* error, send still succeeds with the pre-dispatch final reply; otherwise the
\* candidate is the final reply after the replace_text rewrites applied in
\* dispatch order, trimmed; if an interceptor cancelled and the candidate is
\* blank, the pre-dispatch final reply is retained; in every other case the
\* candidate is the reply returned.
C11_PostDispatchBestEffort ==
    PostRan =>
        LET pre == last.k.finalResponse
            d == PostOf(last)
            cand == Rewritten(pre, d.results)
        IN /\ last.err = << >>
           /\ last.reply = IF d.err # << >> THEN pre
                            ELSE IF EndsInCancel(d.results) /\ cand = << >> THEN pre
                            ELSE cand

\* a rewrite followed by a cancel without replace_text, after the loop
C11_Witness ==
    /\ PostRan /\ PostOf(last).err = << >>
    /\ Len(PostOf(last).results) = 2
    /\ PostOf(last).results[1].ReplaceText # << >>
    /\ PostOf(last).results[2].Cancel /\ PostOf(last).results[2].ReplaceText = << >>
    /\ last.k.finalResponse # << >>

\* ------------------------------------------------------ claims on the chain
\* the registration number of the interceptor id
Reg(id) == CHOOSE n \in 1..Len(Ids) : Ids[n] = id

\* descending priority, equal priorities in registration order
Ordered(s) ==
    \A i, j \in 1..Len(s) :
        i < j => \/ s[i].priority > s[j].priority
                 \/ s[i].priority = s[j].priority /\ Reg(s[i].id) < Reg(s[j].id)

\* the interceptors of s that were registered among the first n
RegisteredBy(s, n) == SelectSeq(s, LAMBDA mw : Reg(mw.id) <= n)

\* C12: after any sequence of Use calls the list is ordered by descending
\* priority with equal priorities in registration order, no interceptor lost
\* or doubled; List returns that list, and Dispatch visits the interceptors
\* of the list it found at its start in that order.
C12_ChainOrder ==
    /\ Ordered(chain)
    /\ {Reg(chain[n].id) : n \in 1..Len(chain)} = 1..Len(chain)
    /\ List = chain
    /\ disp.pc # "idle" =>
          /\ disp.mws = RegisteredBy(chain, Len(disp.mws))
          /\ Ordered(disp.mws)
          /\ Len(disp.log) <= Len(disp.mws)
          /\ \A n \in 1..Len(disp.log) : disp.log[n].id = disp.mws[n].id

\* a full dispatch over three interceptors, two of one priority, the highest
\* registered last
C12_Witness ==
    /\ Len(chain) = 3 /\ disp.pc = "done" /\ Len(disp.log) = 3
    /\ chain[1].id = "c"
    /\ chain[2].priority = chain[3].priority

\* the entries of the log where the interceptor's decision has cancel set
Cancels(log) ==
    {n \in 1..Len(log) : log[n].called /\ log[n].out.err = << >> /\ log[n].out.dec.Cancel}

\* C13: when an interceptor's decision has cancel set, Dispatch records that
\* result and stops: the interceptor is the last one invoked or recorded and
\* the result list ends with its entry.
C13_CancelStops ==
    \A n \in Cancels(disp.log) :
        /\ n = Len(disp.log)
        /\ disp.pc = "done" /\ disp.err = << >>
        /\ Len(disp.results) = n
        /\ disp.results[n] = DecisionResult(disp.mws[n], disp.log[n].out.dec)

\* the first of three interceptors cancelled
C13_Witness ==
    /\ Len(disp.mws) = 3 /\ 1 \in Cancels(disp.log)

\* the entries of the log for interceptors whose ShouldLoad returned false
Skipped(log) == {n \in 1..Len(log) : ~log[n].called}

\* C14: an interceptor whose ShouldLoad returns false is not invoked: Dispatch
\* records a result for it at its position with a non-empty reason and no
\* other content, the event is as before, and the dispatch goes on with the
\* next interceptor, which sees the event the skipped one was spared.
C14_SkipRecorded ==
    \A n \in Skipped(disp.log) :
        /\ disp.mws[n].conditional
        /\ disp.log[n].after = disp.log[n].before
        /\ disp.err = << >> =>
              /\ Len(disp.results) >= n
              /\ disp.results[n].MiddlewareID = disp.mws[n].id
              /\ disp.results[n].Priority = disp.mws[n].priority
              /\ disp.results[n].Decision.Reason # << >>
              /\ disp.results[n].Decision =
                    [ZeroDecision EXCEPT !.Reason = disp.results[n].Decision.Reason]
        /\ n < Len(disp.mws) =>
              IF n = Len(disp.log)
              THEN disp.pc = "run" /\ disp.pos = n + 1 /\ disp.e = disp.log[n].before
              ELSE /\ disp.log[n + 1].id = disp.mws[n + 1].id
                   /\ disp.log[n + 1].before = disp.log[n].before

\* the second interceptor was skipped after a rewrite and the third was called
C14_Witness ==
    /\ Len(disp.log) = 3 /\ disp.err = << >>
    /\ disp.log[1].called /\ disp.log[1].out.dec.ReplaceText # << >>
    /\ 2 \in Skipped(disp.log)
    /\ disp.log[3].called

\* the entries of the log where OnEvent returned an error
Errors(log) == {n \in 1..Len(log) : log[n].called /\ log[n].out.err # << >>}

\* C15: when OnEvent returns an error, Dispatch halts at that interceptor: no
\* later interceptor is invoked, the decision returned with the error is not
\* applied to the event, and the caller gets the error and no results.
C15_ErrorHalts ==
    \A n \in Errors(disp.log) :
        /\ n = Len(disp.log)
        /\ disp.pc = "done"
        /\ disp.err = disp.log[n].out.err
        /\ disp.results = << >>
        /\ disp.log[n].after = disp.log[n].before
        /\ disp.e = disp.log[n].before

\* the second of three interceptors failed, with a decision that would have
\* rewritten the event, after a rewrite by the first
C15_Witness ==
    /\ Len(disp.mws) = 3 /\ 2 \in Errors(disp.log)
    /\ disp.log[2].out.dec.ReplaceText # << >>
    /\ disp.log[1].out.dec.ReplaceText # << >>

\* the entries before n whose decision was applied and carries the field f
AppliedBefore(log, n, f) ==
    {m \in 1..(n - 1) : log[m].called /\ log[m].out.err = << >> /\ log[m].out.dec[f] # << >>}

\* the value of the last of them, or the initial value
LastOf(log, n, f, initial) ==
    LET ms == AppliedBefore(log, n, f)
    IN IF ms = {} THEN initial
       ELSE log[CHOOSE m \in ms : \A x \in ms : x <= m].out.dec[f][1]

\* the event the n-th interceptor must find: the initial event with the
\* params and the text of its kind rewritten by the decisions before it
SeenBy(log, n, e0) ==
    LET text == LastOf(log, n, "ReplaceText", eventText(e0))
        e1 == [e0 EXCEPT !.Params = LastOf(log, n, "OverrideParams", e0.Params)]
    IN IF e0.Name = EventBeforeLLMRequest THEN [e1 EXCEPT !.UserText = text]
       ELSE [e1 EXCEPT !.LLMText = text]

\* C16: each decision is applied to the event in place before the next
\* interceptor runs: override_params replaces the params, replace_text
\* overwrites user_text on before_llm_request and llm_text on the two other
\* events, so each interceptor finds the rewrites of all the earlier ones.
C16_AppliedInPlace ==
    /\ \A n \in 1..Len(disp.log) : disp.log[n].before = SeenBy(disp.log, n, disp.e0)
    /\ disp.pc # "idle" => disp.e = SeenBy(disp.log, Len(disp.log) + 1, disp.e0)

\* three interceptors ran on an llm_text event: the first rewrote the text,
\* the second the params, the third the text again
C16_Witness ==
    /\ disp.pc = "done" /\ Len(disp.log) = 3 /\ disp.err = << >>
    /\ disp.e0.Name = EventBeforeUserReply
    /\ \A n \in 1..3 : disp.log[n].called
    /\ disp.log[1].out.dec.ReplaceText # << >>
    /\ disp.log[2].out.dec.OverrideParams # << >>
    /\ disp.log[3].out.dec.ReplaceText # << >>
    /\ disp.e.LLMText # disp.log[2].before.LLMText

\* ---------------------------------------------------- claims on the Service
\* C17: send with an input that is empty after trimming returns the error
\* "empty input" and no reply, without a middleware dispatch, a memory query
\* or index, an adapter call or a tool run, and history is left as it was,
\* not even pruned.
C17_EmptyInput ==
    last.done /\ last.k.input = << >> =>
        /\ last.err = <<"empty input">> /\ last.reply = << >>
        /\ last.k.dispatches = 0 /\ last.k.memQueries = 0
        /\ last.k.adapterCalls = 0 /\ last.k.toolRuns = 0
        /\ history = last.k.histEntry
        /\ mem = last.k.memEntry

\* an empty send on a history longer than the limit, with a chain installed
C17_Witness ==
    /\ last.done /\ last.k.input = << >>
    /\ Len(last.k.histEntry) > HistoryLimit
    /\ last.k.memEntry # << >>
    /\ mws # NilChain

\* h is made of the n most recent messages of h0, in their order
MostRecent(h, h0, n) ==
    /\ Len(h) = n
    /\ \A x \in 1..n : h[x] = h0[Len(h0) - n + x]

Repeated == last.done /\ last.k.input # << >> /\ probe.prior # << >>

\* the earlier send, and the minutes from its answer to the start of this one
Prior == probe.prior[1]

PriorAge == probe.at - Prior.at

\* the send was answered from the cache with the reply of the earlier send
ServedFromCache ==
    /\ last.err = << >>
    /\ last.k.adapterCalls = 0
    /\ last.reply = Prior.reply

Live(id) == {n \in 1..Len(sess) : sess[n].chat = id /\ ~sess[n].deleted}

\* the handlers that got a session from getSession
Holding == {g \in Handlers : hnd[g].pc \in {"have", "stamp", "turn"}}

\* the webui Sessions created for session id
WebLive(id) == {n \in 1..Len(webMade) : webMade[n] = id}

\* the handlers that got a Session from the webui Server's getSession
WebHolding == {g \in Handlers : hnd[g].pc = "webhave"}

\* C20: for each channel id the session manager holds at most one session: of
\* the sessions created for the id at most one is not deleted, however many
\* first messages come together, that one is the session the map holds for
\* the id, and a lookup returns it for as long as the manager has not deleted
\* it. This holds of the telegram Adapter and of the webui Server.
C20_OneSessionPerChat ==
    /\ \A id \in ChatIDs :
          /\ Cardinality(Live(id)) <= 1
          /\ Live(id) = IF id \in DOMAIN sessions THEN {sessions[id]} ELSE {}
          /\ Cardinality(WebLive(id)) <= 1
          /\ WebLive(id) = IF id \in DOMAIN webSessions THEN {webSessions[id]} ELSE {}
    /\ \A g \in Holding :
          /\ hnd[g].session \in 1..Len(sess)
          /\ sess[hnd[g].session].chat = hnd[g].chat
          /\ ~sess[hnd[g].session].deleted => sessions[hnd[g].chat] = hnd[g].session
    /\ \A g \in WebHolding : WebLive(hnd[g].chat) = {hnd[g].session}

\* two handlers with first messages for one chat both missed under the read
\* lock, and both came back with the one session that was created
C20_Witness ==
    /\ \A g \in Handlers : g \in Holding /\ hnd[g].chat = "x" /\ hnd[g].session = 1
    /\ Len(sess) = 1
    /\ msgs = NumHandlers

\* the chat ids whose session this step takes out of the Adapter's map
Removed == {id \in DOMAIN sessions : id \notin DOMAIN sessions' \/ sessions'[id] # sessions[id]}

\* the chat ids whose session has been idle for more than two hours
Overdue == {id \in DOMAIN sessions : hour - sess[sessions[id]].lastUse > IdleLimit}

\* this step is a round of the periodic sweep, or the shutdown
SweepStep == ~stopped' /\ Removed # {}

ShutdownStep == ~stopped /\ stopped'

\* C21: a sweep deletes exactly the sessions last used more than two hours
\* ago and keeps all others; shutdown cleans up every session the map still
\* holds; and the cleanup hook of a session runs once when the session is
\* removed by either path, and at no other time.
C21_SweepAndShutdown ==
    [][/\ SweepStep => Removed = Overdue
       /\ ShutdownStep => Removed = DOMAIN sessions /\ sessions' = EmptyMap
       /\ \A n \in 1..Len(sess) :
             sess'[n].cleaned = sess[n].cleaned + (IF \E id \in Removed : sessions[id] = n THEN 1 ELSE 0)
       /\ \A n \in 1..Len(sess') :
             /\ sess'[n].cleaned = (IF sess'[n].deleted THEN 1 ELSE 0)
             /\ sess'[n].deleted <=> \A id \in DOMAIN sessions' : sessions'[id] # n]_vars

\* a sweep has removed the first session of a chat and kept the session of
\* the other chat, which was used an hour later; the first chat got a new
\* session; shutdown has then cleaned up both remaining sessions
C21_Witness ==
    /\ stopped
    /\ Len(sess) = 3
    /\ sess[3].chat = sess[1].chat
    /\ sess[2].chat # sess[1].chat
    /\ sess[2].lastUse >= 1
    /\ \A n \in 1..3 : sess[n].deleted /\ sess[n].cleaned = 1

\* ------------------------------------------------------ claims on tool results
\* the locals of the turn in progress, or of the turn that returned last
TurnLocals == IF InTurn(1) THEN {call[1]} ELSE IF last.done THEN {last.k} ELSE {}

\* the tool messages of a turn's working history that answer a call of skill
\* name with arguments that parse
SkillResults(k, name) ==
    {n \in 1..Len(k.currentHistory) :
        /\ k.currentHistory[n].Role = RoleTool
        /\ k.currentHistory[n].ToolName = name
        /\ \E m \in 1..(n - 1) : \E j \in 1..Len(k.currentHistory[m].ToolCalls) :
              /\ k.currentHistory[m].ToolCalls[j].ID = k.currentHistory[n].ToolCallID
              /\ ValidJSON(k.currentHistory[m].ToolCalls[j].Arguments)}

\* a skill whose Execute returns an error, or no output, was called in turn k
HadFailingTool(k) ==
    \E name \in Skills :
        /\ SkillExecute(name).err # << >> \/ SkillExecute(name).out = << >>
        /\ SkillResults(k, name) # {}

\* what the turn's adapter can return as an error
AdapterErrs == {r.err : r \in ErrorReplies}

Shared(d, q) == Cardinality(tokenSet(d) \cap tokenSet(q))

\* out is made of documents of docs, each taken at most as often as it is there
DrawnFrom(out, docs) ==
    \E f \in [1..Len(out) -> 1..Len(docs)] :
        /\ \A m, n \in 1..Len(out) : m # n => f[m] # f[n]
        /\ \A n \in 1..Len(out) : docs[f[n]] = out[n]

\* C23: a memory query returns at most k documents of the session asked,
\* ordered by descending number of distinct lowercased tokens shared with the
\* query, among equal scores the shorter document first; it returns nothing
\* when the session has no documents, the query is blank, or k <= 0.
C23_QueryRanked ==
    asked.done =>
        /\ Len(asked.out) <= (IF asked.k > 0 THEN asked.k ELSE 0)
        /\ DrawnFrom(asked.out, asked.docs)
        /\ \A m, n \in 1..Len(asked.out) : m < n =>
              \/ Shared(asked.out[m], asked.query) > Shared(asked.out[n], asked.query)
              \/ /\ Shared(asked.out[m], asked.query) = Shared(asked.out[n], asked.query)
                 /\ TextLen(asked.out[m]) <= TextLen(asked.out[n])
        /\ (asked.docs = << >> \/ TrimSpace(asked.query) = << >> \/ asked.k <= 0)
              => asked.out = << >>

\* three documents share a token with the query and k is 2: the two returned
\* have the same score, the shorter comes first, and the longest is left out
C23_Witness ==
    /\ asked.done
    /\ asked.k = 2
    /\ Len(asked.docs) = 3
    /\ \A n \in 1..3 : Shared(asked.docs[n], asked.query) = 1
    /\ Len(asked.out) = 2
    /\ TextLen(asked.out[1]) < TextLen(asked.out[2])
    /\ \E n \in 1..3 : TextLen(asked.docs[n]) > TextLen(asked.out[2])

\* ------------------------------------------------------- claims on heartbeats
\* C24: in a turn whose context has is_heartbeat = true neither the stream
\* callback nor the status callback is invoked: not on the middleware
\* short-circuit, not while the LLM streams, not around tool execution.
C24_HeartbeatSilent ==
    \A k \in TurnLocals : k.isHeartbeat => k.stream = << >> /\ k.status = 0

\* a heartbeat turn got text and a tool call from the adapter, ran the tool,
\* and returned the final reply; no callback was invoked
C24_Witness ==
    /\ last.done
    /\ last.k.isHeartbeat
    /\ last.err = << >>
    /\ last.reply # << >>
    /\ last.k.toolRuns > 0
    /\ last.k.adapterCalls >= 2
    /\ last.k.stream = << >>
    /\ last.k.status = 0

\* ------------------------------------------------- claims on the event buffer
\* the numbers of the chunks of a sequence
Numbers(q) == {q[n].n : n \in 1..Len(q)}

\* the chunks of a sequence are in emission order
InEmissionOrder(q) == \A n \in 1..(Len(q) - 1) : q[n].n < q[n + 1].n

\* a callback of the Session can run to its end in this state
CallbackReturns == ENABLED StreamCb

\* C25: the callbacks of the web channel never block: a chunk goes into the
\* buffer of at most 200 when there is room and is dropped when the buffer is
\* full, and the chunks that went in come out to each consumer in the order
\* they were emitted, none of them twice.
C25_BoundedBuffer ==
    [][/\ emitted' = emitted + 1 =>
             IF Len(eventCh) < EventCap
             THEN /\ Len(eventCh') = Len(eventCh) + 1
                  /\ eventCh'[Len(eventCh')].n = emitted'
                  /\ dropped' = dropped
             ELSE /\ eventCh' = eventCh
                  /\ dropped' = dropped \cup {emitted'}
       /\ emitted' < MaxChunks => CallbackReturns'
       /\ Len(eventCh') <= EventCap
       /\ InEmissionOrder(eventCh')
       /\ \A c \in Consumers : InEmissionOrder(delivered'[c])
       /\ \A c \in Consumers : \A n \in Numbers(delivered'[c]) :
             /\ eventCh' # << >> => n < eventCh'[1].n
             /\ \A d \in Consumers \ {c} : n \notin Numbers(delivered'[d])
       /\ UNION {Numbers(delivered'[c]) : c \in Consumers} \cup Numbers(eventCh') \cup dropped'
             = 1..emitted'
       /\ dropped' \cap Numbers(eventCh') = {}]_vars

\* the buffer filled up and chunk 201 was dropped; a consumer then took the
\* first chunk, and chunk 202 went into the room that made
C25_Witness ==
    /\ dropped = {EventCap + 1}
    /\ Len(eventCh) = EventCap
    /\ eventCh[EventCap].n = EventCap + 2
    /\ delivered[1] # << >>
    /\ delivered[1][1].n = 1

\* ----------------------------------------------------- claims on tool injectors
\* the names of the function tools of a list
ToolNames(tools) ==
    {tools[n].Function[1].Name : n \in {m \in 1..Len(tools) : tools[m].Function # << >>}}

\* the log entries of the tool injectors that ran
InjectorRuns == {n \in 1..Len(inj.log) : inj.log[n].ran /\ inj.log[n].kind \in ToolInjectors}

RecognizedCalls == SelectSeq(exe.raw, LAMBDA tc : Handles(exe.kind, tc.Tool))

\* the executor's OnEvent has returned from an after_llm_response event
ExecReturned == exe.n = 1 /\ exe.name = EventAfterLLMResponse

InLoop == {g \in Goroutines : gor[g].pc = "run" \/ gor[g].nested}

\* the goroutines inside a method of the chain
Busy == {g \in Goroutines : gor[g].pc # "idle"}

\* the ids of a list of interceptors
IdsOf(l) == [n \in 1..Len(l) |-> l[n].id]

\* C28: Dispatch iterates over the copy of the interceptor list it took under
\* the read lock and holds no lock of the chain while interceptors run: a Use
\* during a dispatch changes neither which interceptors the dispatch visits
\* nor their order, and an interceptor that calls Use or List on its chain from
\* OnEvent is not blocked by its own dispatch, so no goroutine is stuck.
C28_SnapshotDispatch ==
    /\ \A g \in InLoop :
          /\ chainMu.readers[g] = IF gor[g].pc = "listed" THEN 1 ELSE 0
          /\ chainMu.writer = g => gor[g].pc = "use_locked"
          /\ gor[g].visited = SubSeq(IdsOf(gor[g].at), 1, Len(gor[g].visited))
    /\ \A g \in Goroutines :
          gor[g].returned /\ gor[g].pc = "idle" =>
              gor[g].visited = SubSeq(IdsOf(gor[g].at), 1, Len(gor[g].visited))
    /\ Busy # {} => ENABLED ChainLockProgress

\* while a dispatch was in its loop another goroutine registered an
\* interceptor that sorts to the front; the interceptor the dispatch then
\* visited is the one of its copy, and it called Use from OnEvent and holds
\* the write lock
C28_Witness ==
    \E g \in Goroutines :
        /\ gor[g].pc = "use_locked"
        /\ gor[g].nested
        /\ Len(gor[g].at) = 1
        /\ Len(chain) = 2
        /\ chain[1].id # gor[g].at[1].id
        /\ gor[g].visited = IdsOf(gor[g].at)

\* ------------------------------------------------ claims on the request's tools
\* the tools before the deduplication: those of the interceptors, then the skills'
AllTools == tl.mw \o [n \in 1..Len(tl.list) |-> Tool(tl.list[n], "skill")]

\* the places of a list that hold a function tool
FunctionAt(tools) == {n \in 1..Len(tools) : tools[n].Function # << >>}

\* the places of a list that hold a function tool whose name an earlier one has
Repeats(tools) ==
    {n \in FunctionAt(tools) :
        \E m \in FunctionAt(tools) :
            m < n /\ tools[m].Function[1].Name = tools[n].Function[1].Name}

\* a list without the places in drop
RECURSIVE Without(_, _)
Without(tools, drop) ==
    IF tools = << >> THEN << >>
    ELSE Without(SubSeq(tools, 1, Len(tools) - 1), drop)
         \o (IF Len(tools) \in drop THEN << >> ELSE <<tools[Len(tools)]>>)

\* C29: after tool injection and deduplication every registered skill's name
\* is among params.tools and no two function tools share a name: of the
\* function descriptors of one name only the first of the list is kept (an
\* interceptor's before the skill's own), and every tool that is not a function
\* tool is kept.
C29_ToolsDeduplicated ==
    tl.n = 1 /\ tl.hasMgr =>
        /\ \A n \in 1..Len(tl.list) :
              \E m \in FunctionAt(tl.sent) : tl.sent[m].Function[1].Name = tl.list[n]
        /\ Repeats(tl.sent) = {}
        /\ tl.sent = Without(AllTools, Repeats(AllTools))

\* two interceptor tools named echo, a tool that is no function tool, and the
\* skill echo: the first interceptor tool is the echo that is sent
C29_Witness ==
    /\ tl.n = 1
    /\ tl.hasMgr
    /\ tl.mw = <<Tool("echo", "mw2"), PlainTool("retrieval"), Tool("echo", "mw1")>>
    /\ tl.list = <<"fail", "echo">>
    /\ tl.sent = <<Tool("echo", "mw2"), PlainTool("retrieval"), Tool("fail", "skill")>>

\* ------------------------------------------- claims on tool call arguments
\* the tool calls of the message in hand whose goroutine is done
Finished(k) == {j \in 1..Len(k.toolCalls) : j \notin k.pending}

\* C30 as stated: every tool call whose arguments are not valid JSON, whether
\* its name is a registered skill or not, gets the result "Error: Invalid
\* arguments JSON: ...", and neither a skill nor the chain is run for it.
C30_AsStated ==
    \A c \in Clients :
        LET k == call[c] IN
        k.pc = "tools" =>
            \A j \in Finished(k) :
                ~ValidJSON(k.toolCalls[j].Arguments) =>
                    /\ k.results[j].Content =
                          <<"Error: Invalid arguments JSON: ", "unexpected end of JSON input">>
                    /\ j \notin k.skillRuns
                    /\ j \notin k.mwRuns

\* ------------------------------------------------------------------- C31
NotFound(t) == <<"Error: Tool '", t.Name, "' not found.">>

\* the dispatch recorded for the j-th call of a turn
DispatchOf(k, j) == {n \in 1..Len(k.toolDispatch) : k.toolDispatch[n].j = j}

\* the results of a dispatch that carry both Cancel and a ReplaceText
Qualify(d) == {n \in 1..Len(d.results) : d.results[n].Cancel /\ d.results[n].ReplaceText # << >>}

FirstQualifying(d) == d.results[CHOOSE n \in Qualify(d) : \A m \in Qualify(d) : n <= m]

\* the j-th call of the turn has an unregistered name and its goroutine is done
Unregistered(k, j) ==
    /\ k.pc = "tools"
    /\ j \in 1..Len(k.toolCalls)
    /\ j \notin k.pending
    /\ k.toolCalls[j].Name \notin Skills

DispatchedAlone(k, j) ==
    /\ Cardinality(DispatchOf(k, j)) = 1
    /\ \A n \in DispatchOf(k, j) :
          /\ k.toolDispatch[n].e.Name = EventAfterLLMResponse
          /\ k.toolDispatch[n].e.tool_calls = <<mwToolCall(k.toolCalls[j].Name, NoArgs)>>

\* C31 as stated: with a chain configured, a call with an unregistered name is
\* dispatched as an after_llm_response event that holds exactly that call, and
\* its result is the replace_text of the first result with cancel and
\* replace_text, or "Error: Tool '<name>' not found." when no result
\* qualifies or the dispatch fails
C31_AsStated ==
    \A c \in Clients, j \in 1..2 :
        Unregistered(call[c], j) /\ mws # NilChain =>
            /\ DispatchedAlone(call[c], j)
            /\ \A n \in DispatchOf(call[c], j) :
                  LET d == call[c].toolDispatch[n].d
                  IN call[c].results[j].Content =
                        IF d.err = << >> /\ Qualify(d) # {}
                        THEN FirstQualifying(d).ReplaceText[1]
                        ELSE NotFound(call[c].toolCalls[j])

\* C31 amended: the same, but a replace_text that is the empty string is
\* recorded as "Success (no output)", and without a chain nothing is
\* dispatched and the result is the not-found text
C31_MiddlewareTool ==
    \A c \in Clients, j \in 1..2 :
        Unregistered(call[c], j) =>
            IF mws = NilChain
            THEN /\ DispatchOf(call[c], j) = {}
                 /\ call[c].results[j].Content = NotFound(call[c].toolCalls[j])
            ELSE /\ DispatchedAlone(call[c], j)
                 /\ \A n \in DispatchOf(call[c], j) :
                       LET d == call[c].toolDispatch[n].d
                       IN call[c].results[j].Content =
                             IF d.err = << >> /\ Qualify(d) # {}
                             THEN IF FirstQualifying(d).ReplaceText[1] = << >>
                                  THEN <<"Success (no output)">>
                                  ELSE FirstQualifying(d).ReplaceText[1]
                             ELSE NotFound(call[c].toolCalls[j])

\* a call of the unregistered "alarm" was answered by the second interceptor's
\* replace_text after the first one passed with a replace_text of its own
C31_Witness ==
    /\ Unregistered(call[1], 2)
    /\ call[1].toolCalls[2].Name = "alarm"
    /\ \E n \in DispatchOf(call[1], 2) :
          /\ Len(call[1].toolDispatch[n].d.results) = 2
          /\ call[1].toolDispatch[n].d.results[1].ReplaceText = << <<"r">> >>
          /\ Qualify(call[1].toolDispatch[n].d) = {2}
    /\ call[1].results[2].Content = <<"r", " ">>

\* ------------------------------------------------------------------- C32
RoleSystem == "system"

\* the vector one iteration hands to ReplyStream: the system prompt, then
\* currentHistory
messages(k) == <<Message(RoleSystem, <<"You are IRon">>, << >>, "", "")>> \o k.currentHistory

\* the tool message at n answers a tool call of an assistant message before it
Answered(m, n) ==
    \E p \in 1..(n - 1) :
        /\ m[p].Role = RoleAssistant
        /\ \E q \in 1..Len(m[p].ToolCalls) : m[p].ToolCalls[q].ID = m[n].ToolCallID

WellFormed(m) ==
    /\ m # << >>
    /\ m[Len(m)].Role \in {RoleUser, RoleTool}
    /\ \A n \in 1..Len(m) : m[n].Role = RoleTool => Answered(m, n)

\* C32 as stated: every message vector passed to ReplyStream is non-empty,
\* ends with a user or a tool message, and holds every tool message behind an
\* assistant message whose tool calls include its id, for every reachable
\* history, a pruned one included
C32_AsStated ==
    \A c \in Clients : call[c].pc = "loop" => WellFormed(messages(call[c]))

\* ------------------------------------------------------------------- C33
\* what Index adds for the texts ts, in their order
RECURSIVE Indexed(_)
Indexed(ts) ==
    IF ts = << >> THEN << >>
    ELSE (IF TrimSpace(Head(ts)) = << >> THEN << >> ELSE <<TrimSpace(Head(ts))>>)
         \o Indexed(Tail(ts))

\* C33 as stated: memory is queried once at the start of a turn, a send that
\* completes the agent loop adds the turn's input and its final reply, in
\* this order, to the default session, and a send that returns an error adds
\* nothing
C33_AsStated ==
    /\ last.done /\ last.err # <<"empty input">> => last.k.memQueries = 1
    /\ ReturnedOK /\ RanLoop(last) =>
          mem = last.k.memEntry \o <<TrimSpace(last.k.input), TrimSpace(last.reply)>>
    /\ last.done /\ last.err # << >> => mem = last.k.memEntry

\* C33 amended: a send with an input that is not empty queries memory once
\* before anything of the turn is indexed; a send that completes the agent
\* loop and is no heartbeat adds the input (as rewritten by the pre-LLM
\* chain) and then the final reply, each trimmed and only when not blank; a
\* heartbeat, a send answered by the pre-LLM chain and a send that returns an
\* error add nothing
C33_MemoryTurn ==
    /\ last.done => last.k.memQueries = IF last.err = <<"empty input">> THEN 0 ELSE 1
    /\ ReturnedOK /\ RanLoop(last) /\ ~last.k.isHeartbeat =>
          mem = last.k.memEntry \o Indexed(<<last.k.input, last.reply>>)
    /\ last.done /\ (last.err # << >> \/ ~RanLoop(last) \/ last.k.isHeartbeat) =>
          mem = last.k.memEntry
    /\ \A c \in Clients : call[c].pc # "idle" =>
          call[c].memQueries = 1 /\ mem = call[c].memEntry

\* a turn with a tool round on a memory that holds an earlier turn added its
\* rewritten input and its reply
C33_Witness ==
    /\ ReturnedOK /\ RanLoop(last) /\ ~last.k.isHeartbeat
    /\ last.k.memEntry # << >>
    /\ last.k.toolRuns >= 1
    /\ last.reply # << >>
    /\ Len(mem) = Len(last.k.memEntry) + 2
    /\ mem[Len(mem)] = TrimSpace(last.reply)

\* ------------------------------------------------------------------- C37
AssistantIn(h) == {n \in 1..Len(h) : h[n].Role = RoleAssistant}

\* the content of the last assistant message of h, in a sequence of 0 or 1
LastAssistant(h) ==
    IF AssistantIn(h) = {} THEN << >>
    ELSE <<h[CHOOSE n \in AssistantIn(h) : \A m \in AssistantIn(h) : m <= n].Content>>

Capped(l) == l.k.currentHistory[Len(l.k.currentHistory)].Role = RoleTool

\* the post-LLM dispatch of the returned call brought a replace_text
Replaced(l) ==
    /\ l.k.post # << >>
    /\ \E n \in 1..Len(l.k.post[1].results) : l.k.post[1].results[n].ReplaceText # << >>

C40_HeartbeatLeavesNoTrace ==
    /\ last.done /\ last.k.isHeartbeat =>
          /\ history = Base(last)
          /\ mem = last.k.memEntry
    /\ \A c \in Clients :
          call[c].pc # "idle" /\ call[c].isHeartbeat =>
              /\ history = Prune(call[c].histEntry)
              /\ mem = call[c].memEntry

\* a heartbeat turn went through two tool rounds and a post-LLM dispatch on a
\* history and a memory that hold an earlier turn
C40_Witness ==
    /\ ReturnedOK /\ last.k.isHeartbeat /\ RanLoop(last)
    /\ last.k.toolRuns >= 2 /\ last.k.post # << >>
    /\ last.reply # << >>
    /\ last.k.histEntry # << >> /\ last.k.memEntry # << >>
    /\ Len(last.k.currentHistory) > Len(history) + 1

\* ------------------------------------------------------------------- C34
\* handler g holds the session that getSession returned to it, up to the end
\* of its turn
HoldsSession(g) == hnd[g].pc \in {"have", "stamp", "turn"}

\* C34 as stated: no turn runs on a session whose cleanup hook was invoked,
\* and no sweep cleans and deletes a session between a handler's lookup and
\* the end of its turn
C34_AsStated ==
    \A g \in Handlers :
        HoldsSession(g) =>
            /\ sess[hnd[g].session].cleaned = 0
            /\ ~sess[hnd[g].session].deleted

\* ------------------------------------------------------------------- C35
\* handler h has a message for an existing session other than the one
\* handler g runs its turn on, and stands before its lookup
WaitsBesideTurn(g, h) ==
    /\ hnd[g].pc = "turn"
    /\ hnd[h].pc = "rlock"
    /\ hnd[h].chat \in DOMAIN sessions
    /\ sessions[hnd[h].chat] # hnd[g].session

\* sessionsMu is held by the /clear handler, which waits for the mu of a
\* session whose turn is in progress
ManagerHeldForTurn ==
    /\ clr.pc = "locked"
    /\ sessionsMu.writer = ClearHandler
    /\ clr.chat \in DOMAIN sessions
    /\ sess[sessions[clr.chat]].mu \in Handlers

\* C35 as stated: while a turn is in progress on one session, a message for
\* a different existing session is not kept from its lookup until that turn
\* ends, whatever other requests are pending
C35_AsStated ==
    \A g \in Handlers, h \in Handlers :
        WaitsBesideTurn(g, h) => ~(ManagerHeldForTurn /\ ~CanRLock(sessionsMu))

C38_AsStated == served.done /\ served.cached => served.by = served.chat

\* ------------------------------------------------------------------- C39
\* the entries of a list of alarms that equal e
CountOf(l, e) == Cardinality({n \in 1..Len(l) : l[n] = e})

\* C39 as stated: once the alarm.set calls that ran at the same time have all
\* returned, the persisted list holds the alarm of every one of them
C39_AsStated ==
    (\A g \in Goroutines : ag[g].pc = "idle") =>
        /\ ~afile.torn
        /\ \A n \in 1..Len(okd) : CountOf(afile.data, okd[n]) = CountOf(okd, okd[n])

============================================================================
